---- MODULE Spec2Model ----
(***************************************************************************)
(* A model of the vibegrapher backend: the unified-diff engine             *)
(* (app/utils/diff_parser.py), the version store (services/git_service.py) *)
(* and the human review / commit lifecycle of a Diff (app/api/diffs.py,    *)
(* services/vibecode_service.py, agents/all_agents.py).                    *)
(*                                                                         *)
(* Representation.  A text is the sequence of its lines, i.e. the value of *)
(* str.split('\n'); the empty string is <<"">> and the empty sequence <<>> *)
(* stands for Python's None where a text is expected.  A version id (git   *)
(* SHA) is the position of the commit in the store, 0 standing for None.   *)
(* A nullable string column holds "None" when it is NULL.                  *)
(***************************************************************************)
EXTENDS Integers, Sequences, FiniteSets, TLC

\* ---------------------------------------------------------------- bounds
MaxDiffs == 2        \* Diff records created
MaxReqs == 2         \* commit requests the server processes serve at a time
MaxCommits == 3      \* entries in the version store
MaxRuns == 1         \* orchestrator runs started by handle_human_rejection
MaxEvents == 2       \* events of one stream of the generator

\* ------------------------------------------------------------- constants
NoneText == <<>>
NoneSha == 0
NoneStr == "None"

EVALUATOR_APPROVED == "evaluator_approved"
HUMAN_APPROVED == "human_approved"
HUMAN_REJECTED == "human_rejected"
COMMITTED == "committed"

NoFeedbackProvided == "No feedback provided"

\* the code of the project the tests start from (two lines, no final
\* newline)
InitialCode == <<"def hello():", "    return 'world'">>

\* ------------------------------------------------------ patch text lines
\* A patch line is a record: k is what the line starts with, s the text
\* after the first character.  "@@" is a hunk header that the regular
\* expression of parse_hunks matches, "@@bad" a line that starts with '@@'
\* and does not match.
Hdr(os, oc, ns, nc) ==
    [k |-> "@@", s |-> "", old_start |-> os, old_count |-> oc,
     new_start |-> ns, new_count |-> nc]
Ln(k, s) ==
    [k |-> k, s |-> s, old_start |-> 0, old_count |-> 0,
     new_start |-> 0, new_count |-> 0]

StartsWithAt(l) == l.k \in {"@@", "@@bad"}
StartsWithMinus(l) == l.k \in {"-", "---"}
StartsWithPlus(l) == l.k \in {"+", "+++"}
StartsWithSpace(l) == l.k = " "

\* ------------------------------------------------------------ DiffParser
RECURSIVE HunkEnd(_, _)
\* the inner while loop of parse_hunks: the first index at or after i of a
\* line that starts with '@@', or one past the end
HunkEnd(patch_lines, i) ==
    IF i > Len(patch_lines) \/ StartsWithAt(patch_lines[i])
    THEN i
    ELSE HunkEnd(patch_lines, i + 1)

RECURSIVE parse_hunks_from(_, _)
parse_hunks_from(patch_lines, i) ==
    IF i > Len(patch_lines) THEN <<>>
    ELSE IF patch_lines[i].k = "@@"
    THEN LET e == HunkEnd(patch_lines, i + 1)
         IN  <<[old_start |-> patch_lines[i].old_start,
                new_start |-> patch_lines[i].new_start,
                hunk_lines |-> SubSeq(patch_lines, i + 1, e - 1)]>>
             \o parse_hunks_from(patch_lines, e)
    ELSE parse_hunks_from(patch_lines, i + 1)

parse_hunks(patch_lines) == parse_hunks_from(patch_lines, 1)

RECURSIVE Removals(_, _, _)
\* the context_count recorded for every '-' line of a hunk
Removals(hunk_lines, i, context_count) ==
    IF i > Len(hunk_lines) THEN <<>>
    ELSE IF StartsWithMinus(hunk_lines[i])
    THEN <<context_count>> \o Removals(hunk_lines, i + 1, context_count)
    ELSE IF StartsWithPlus(hunk_lines[i])
    THEN Removals(hunk_lines, i + 1, context_count)
    ELSE IF StartsWithSpace(hunk_lines[i])
    THEN Removals(hunk_lines, i + 1, context_count + 1)
    ELSE Removals(hunk_lines, i + 1, context_count)

RECURSIVE Additions(_, _)
Additions(hunk_lines, i) ==
    IF i > Len(hunk_lines) THEN <<>>
    ELSE IF StartsWithMinus(hunk_lines[i]) THEN Additions(hunk_lines, i + 1)
    ELSE IF StartsWithPlus(hunk_lines[i])
    THEN <<hunk_lines[i].s>> \o Additions(hunk_lines, i + 1)
    ELSE Additions(hunk_lines, i + 1)

\* a list under modification: ok = FALSE once an exception was raised
Lst(l) == [ok |-> TRUE, l |-> l]
Raised == [ok |-> FALSE, l |-> <<>>]

RemoveAt(l, n) == SubSeq(l, 1, n - 1) \o SubSeq(l, n + 1, Len(l))

\* list.pop(pos) for a 0-based pos >= -1 that is below len(l)
PyPop(l, pos) ==
    IF pos >= 0 THEN Lst(RemoveAt(l, pos + 1))
    ELSE IF Len(l) = 0 THEN Raised
    ELSE Lst(RemoveAt(l, Len(l)))

\* list.insert(pos, x)
PyInsert(l, pos, x) ==
    LET p0 == IF pos < 0 THEN pos + Len(l) ELSE pos
        p1 == IF p0 < 0 THEN 0 ELSE IF p0 > Len(l) THEN Len(l) ELSE p0
    IN  SubSeq(l, 1, p1) \o <<x>> \o SubSeq(l, p1 + 1, Len(l))

RECURSIVE PopAll(_, _, _, _)
\* for idx in reversed(removals): pop when old_start - 1 + idx < len(lines)
PopAll(st, old_start, removals, j) ==
    IF j = 0 \/ ~st.ok THEN st
    ELSE LET pos == old_start - 1 + removals[j]
         IN  PopAll(IF pos < Len(st.l) THEN PyPop(st.l, pos) ELSE st,
                    old_start, removals, j - 1)

RECURSIVE InsertAll(_, _, _, _)
InsertAll(l, insert_pos, additions, j) ==
    IF j > Len(additions) THEN l
    ELSE InsertAll(PyInsert(l, insert_pos, additions[j]), insert_pos + 1,
                   additions, j + 1)

apply_hunk(st, hunk) ==
    LET removals == Removals(hunk.hunk_lines, 1, 0)
        additions == Additions(hunk.hunk_lines, 1)
        popped == PopAll(st, hunk.old_start, removals, Len(removals))
    IN  IF ~popped.ok THEN Raised
        ELSE Lst(InsertAll(popped.l, hunk.old_start - 1, additions, 1))

RECURSIVE apply_hunks_reversed(_, _, _)
apply_hunks_reversed(st, hunks, j) ==
    IF j = 0 \/ ~st.ok THEN st
    ELSE apply_hunks_reversed(apply_hunk(st, hunks[j]), hunks, j - 1)

\* a join that ends the text with a newline
Join_WithNewline(lines) == lines \o <<"">>

\* '\n'.join(lines) as a text
Join(lines) == IF lines = <<>> THEN <<"">> ELSE lines

\* texts that consist of whitespace only; every other text of the model
\* neither ends with whitespace nor starts with '@@'
BlankTexts == {"", " ", "    "}

RECURSIVE Strip(_)
\* patch.strip() followed by split('\n').  Trailing lines made of
\* whitespace disappear and the last remaining line loses its trailing
\* whitespace.  Leading whitespace is stripped too, which changes nothing
\* for parse_hunks: it skips every line before the first '@@' line.
Strip(patch) ==
    IF patch = <<>> THEN <<>>
    ELSE LET last == patch[Len(patch)]
             front == SubSeq(patch, 1, Len(patch) - 1)
         IN  IF last.k \in {" ", "other"} /\ last.s \in BlankTexts
             THEN Strip(front)
             ELSE IF last.s \in BlankTexts
             THEN front \o <<[last EXCEPT !.s = ""]>>
             ELSE patch

\* DiffParser.apply_patch: the patched text, or NoneText when anything
\* raised
apply_patch(original_code, patch) ==
    LET hunks == parse_hunks(Strip(patch))
        st == apply_hunks_reversed(Lst(original_code), hunks, Len(hunks))
    IN  IF st.ok THEN Join(st.l) ELSE NoneText


\* ------------------------------------------------------------ inputs
\* the patch of the review tests: one hunk that adds a comment line
PatchAddComment ==
    <<Ln("---", "-- a/code.py"), Ln("+++", "++ b/code.py"),
      Hdr(1, 2, 1, 3),
      Ln(" ", "def hello():"),
      Ln("+", "    # This is a test comment"),
      Ln(" ", "    return 'world'")>>

\* a hunk at old_start 0 with two removals: it empties the seeded code, and
\* lines.pop(-1) raises IndexError when the code has one line only
PatchRemoveTwo ==
    <<Hdr(0, 2, 0, 0),
      Ln("-", "def hello():"), Ln("-", "    return 'world'")>>

Patches == {PatchAddComment, PatchRemoveTwo}

GivenFeedback == "Please add more detailed comments"
\* ReviewRequest.feedback: absent, empty or a text
Feedbacks == {NoneStr, "", GivenFeedback}

CustomMessage == "Custom message"
\* CommitRequest.commit_message: absent or a text
CommitMessages == {NoneStr, CustomMessage}

DiffIds == 1..MaxDiffs
Reqs == 1..MaxReqs

\* ------------------------------------------------------------- state
VARIABLES
    diffs,      \* table diffs: the sequence of Diff rows, a row's id is its position
    project,    \* the row of the project: current_code, current_commit
    repo,       \* the project's git repository: head and commits
    creq,       \* the commit_diff requests being served and how far each one got
    last,       \* the response to the last request that was answered
    runs,       \* the orchestrator runs started by handle_human_rejection
    vrun,       \* the call of vibecode() being served: its locals and result
    messages,   \* table conversation_messages: the rows of the stream events
    loop,       \* the event loop: the effects issued so far (database writes
                \* awaited, transport emissions), the background tasks, the
                \* requests send_message served and the prompts it called
                \* vibecode() with
    service,    \* the attributes of the global VibecodeService instance
    engine,     \* the last call of a function of the diff engine
    sessions,   \* table vibecode_sessions, the uuids drawn for its rows,
                \* the ids DELETE /sessions/{session_id} answered 204 for,
                \* and the submissions of messages being served
    sio         \* the attributes of the global SocketIOManager instance and
                \* the clients its server holds

vars == <<diffs, project, repo, creq, last, runs, vrun, messages, loop,
          service, engine, sessions, sio>>

\* the state of the review and commit lifecycle
review == <<diffs, project, repo, creq, last, runs>>

\* the state of the orchestrator and of the diff engine calls, which the
\* endpoints of api/diffs.py and the handle_human_rejection methods leave
\* alone
orch == <<vrun, messages, loop, service, engine>>

\* the sessions table and the socket manager, which the endpoints of
\* api/diffs.py, the orchestrator and the diff engine leave alone
edge == <<sessions, sio>>

\* ------------------------------------------------------ version store
\* GitService.get_head_commit
get_head_commit(r) == r.head

\* GitService.commit_changes when nothing raises: a commit of the file on
\* top of the current head is created and becomes the head
CommitOk(r, content, message, filename) ==
    [head |-> Len(r.commits) + 1,
     commits |-> Append(r.commits,
                        [parent |-> r.head, filename |-> filename,
                         content |-> content, message |-> message])]

\* the outcomes of GitService.commit_changes, <<repository, returned id>>:
\* the new commit and its id, or, when anything raised, no commit and None
commit_changes(r, content, message, filename) ==
    (IF Len(r.commits) < MaxCommits
     THEN {<<CommitOk(r, content, message, filename), Len(r.commits) + 1>>}
     ELSE {})
    \cup {<<r, NoneSha>>}

\* ------------------------------------------------------------ the rows
NewDiff(base_commit, diff_content) ==
    [session_id |-> "s1", project_id |-> "p1",
     base_commit |-> base_commit, target_branch |-> "main",
     diff_content |-> diff_content, status |-> EVALUATOR_APPROVED,
     vibecoder_prompt |-> "Add a comment",
     evaluator_reasoning |-> "Good addition",
     commit_message |-> "Add helpful comment to hello function",
     human_feedback |-> NoneStr, committed_sha |-> NoneSha]

IdleReq ==
    [pc |-> "idle", diff_id |-> 0, commit_message |-> NoneStr,
     new_code |-> NoneText, commit_sha |-> NoneSha]

\* an HTTP response: the status code and the detail of the error
Response(http, detail) == [http |-> http, detail |-> detail]

\* ------------------------------------------------- orchestrator data
\* A prompt, a reasoning or an error message is the sequence of the pieces
\* it was formatted from: the fixed phrases of the f-strings and the texts
\* put into their holes.  <<>> stands for None.
UserPrompt == <<"Add error handling to the hello function">>

RejectedPrefix == "The evaluator rejected your patch. Feedback: "
PleaseTryAgain == "Please try again."
ValidationFailedPrefix == "Patch validation failed: "
SyntaxErrorPrefix == "SyntaxError: "
MaximumIterationReached ==
    <<"Maximum iteration limit reached without approval">>
MaxIterationsReached == <<"Max iterations reached without approval">>
GeneratedDiffId == "generated-diff-id"

\* lines that are a syntax error of Python wherever they stand
BadLines == {"def broken(:"}

\* ast.parse(text) returns: no line of the text is a syntax error
ast_parse(text) == \A i \in DOMAIN text : text[i] \notin BadLines

\* validate_patch: the patch is applied and the result is parsed.  Only
\* ValueError is caught around apply_patch, which returns None instead of
\* raising, so ast.parse(None) raises TypeError out of validate_patch.
validate_patch(original, patch) ==
    LET patched_code == apply_patch(original, patch)
    IN  IF patched_code = NoneText
        THEN [raised |-> TRUE, valid |-> FALSE, patched_code |-> NoneText,
              error |-> <<>>]
        ELSE IF ast_parse(patched_code)
        THEN [raised |-> FALSE, valid |-> TRUE,
              patched_code |-> patched_code, error |-> <<>>]
        ELSE [raised |-> FALSE, valid |-> FALSE, patched_code |-> NoneText,
              error |-> <<SyntaxErrorPrefix, "invalid syntax">>]

\* a patch whose result does not parse
PatchBreakSyntax ==
    <<Hdr(1, 2, 1, 3),
      Ln(" ", "def hello():"),
      Ln("+", "def broken(:"),
      Ln(" ", "    return 'world'")>>

\* a hunk at old_start 0 with three removals: lines.pop(-1) raises
\* IndexError on the third, the seeded code having two lines
PatchRemoveThree ==
    <<Hdr(0, 3, 0, 0),
      Ln("-", "def hello():"), Ln("-", "    return 'world'"),
      Ln("-", "")>>

\* the patches the generator hands to submit_patch
ProposedPatches == {PatchAddComment, PatchBreakSyntax, PatchRemoveThree}

\* EvaluationResult; stage tells which statement of submit_patch built it
EvaluationResult(approved, reasoning, commit_message, stage) ==
    [kind |-> "evaluation", approved |-> approved, reasoning |-> reasoning,
     commit_message |-> commit_message, stage |-> stage]

\* no EvaluationResult: the initial value of evaluation, and the output of
\* a tool call that raised (the SDK hands the error text back to the
\* generator)
NoEvaluation ==
    [kind |-> "none", approved |-> FALSE, reasoning |-> <<>>,
     commit_message |-> <<>>, stage |-> "none"]

\* the reasonings of a rejecting evaluator
Reasonings ==
    {<<"The patch does not handle errors">>,
     <<ValidationFailedPrefix, SyntaxErrorPrefix, "invalid syntax">>}

\* the final outputs of the evaluator agent
EvaluatorOutputs ==
    {EvaluationResult(TRUE, <<"Good addition">>,
                      <<"Add error handling">>, "evaluator")}
    \cup {EvaluationResult(FALSE, r, <<"">>, "evaluator") : r \in Reasonings}

\* the plain-text answers of the generator
FinalOutputs == {<<"The function returns the string 'world'.">>}

\* VibecodeResult
Result(content, diff_id, patch, error) ==
    [content |-> content, diff_id |-> diff_id, patch |-> patch,
     error |-> error]
NoResult == Result(<<>>, NoneStr, <<>>, <<>>)

\* the positions at which a call of vibecode() has ended: the three return
\* statements and an exception that left the method
Ended == {"approved", "text", "exhausted", "raised"}

\* no function of the diff engine was called yet
\* the sessions whose calls of vibecode() run at the same time
MaxSessions == 2

Sessions == 1..MaxSessions

\* the locals of a call of vibecode() of one of the sessions, before the
\* call
IdleCall == [pc |-> "idle", iteration |-> 0, prompt |-> <<>>]

\* the value of a validation when validate_patch was not called
NoValidation ==
    [raised |-> FALSE, valid |-> FALSE, patched_code |-> NoneText,
     error |-> <<>>]

\* no function of the diff engine was called yet
IdleEngine ==
    [fn |-> "none", original |-> NoneText, patch |-> <<>>,
     new_content |-> NoneText, modified |-> NoneText,
     validation |-> NoValidation]

\* no call of vibecode() was made yet
IdleRun ==
    [pc |-> "idle", impl |-> "none", session_id |-> "s1",
     prompt |-> <<>>, current_code |-> NoneText,
     args |-> [prompt |-> <<>>, current_code |-> NoneText],
     iteration |-> 0, generator_calls |-> <<>>, evaluator_calls |-> {},
     events |-> 0, sequence_counter |-> 0, last_sequence |-> -1,
     gaps |-> 0, verdicts |-> <<>>,
     evaluation |-> NoEvaluation, collected_messages |-> <<>>,
     result |-> NoResult]

\* ----------------------------------------------------- sessions table
\* the projects that exist, the first being the project of the variable
\* project
MaxProjects == 2

ProjectIds == {<<"p1", "p2", "p3", "p4">>[n] : n \in 1..MaxProjects}

\* the sessions that are created
MaxCreated == 3

\* VibecodeSession.id of the n-th session that is created:
\* str(uuid.uuid4())
SessionUuid(n) == <<"s1", "s2", "s3", "s4", "s5">>[n]

\* the ids of the sessions that can be created
SessionIds == {SessionUuid(n) : n \in 1..MaxCreated}

\* the submissions of messages that server processes sharing the database
\* serve at a time
MaxWriters == 2

Writers == 1..MaxWriters

\* a server process that serves no submission
IdleWriter ==
    [pc |-> "idle", message |-> [id |-> <<"none", 0>>], existing |-> FALSE]

\* the session of the first project exists
InitialSessions ==
    [rows |-> {[id |-> SessionUuid(1), project_id |-> "p1"]},
     drawn |-> 1, deleted |-> {},
     writers |-> [w \in Writers |-> IdleWriter]]

\* ------------------------------------------------------ socket manager
\* the clients the server can hold at a time; a sid names one of them
MaxClients == 3

Sids == 1..MaxClients

\* SocketIOManager.__init__, no client being connected
InitialManager ==
    [connections |-> 0, project_rooms |-> [p \in {} |-> {}],
     clients |-> {}, rooms |-> {},
     emitted |-> [event |-> "none", room |-> 0]]

\* -------------------------------------------------------------- Init
\* the state after create_project: one commit that holds the starting code,
\* and the project row with that code and that commit
Init ==
    /\ diffs = <<>>
    /\ repo = CommitOk([head |-> NoneSha, commits |-> <<>>],
                       InitialCode, "Initial project setup", "main.py")
    /\ project = [current_code |-> InitialCode, current_commit |-> 1]
    /\ creq = [r \in Reqs |-> IdleReq]
    /\ last = Response(0, "")
    /\ runs = <<>>
    /\ vrun = IdleRun
    /\ messages = {}
    /\ loop = [effects |-> <<>>, tasks |-> <<>>, served |-> 0,
               calls |-> [s \in Sessions |-> IdleCall],
               posts |-> <<>>, started |-> <<>>]
    /\ service = [last_iteration_count |-> 0]
    /\ engine = IdleEngine
    /\ sessions = InitialSessions
    /\ sio = InitialManager

\* ------------------------------------------------------- Diff creation
\* an evaluator-approved Diff is stored with the head of the repository as
\* its base commit; its patch applies to the code of the project
create_diff(patch) ==
    /\ Len(diffs) < MaxDiffs
    /\ apply_patch(project.current_code, patch) # NoneText
    /\ diffs' = Append(diffs, NewDiff(get_head_commit(repo), patch))
    /\ UNCHANGED <<project, repo, creq, last, runs, orch, edge>>

\* ------------------------------------------------------------- review
\* a review guard that only refuses Diffs that were committed
PendingReview_NotCommitted(diff) == diff.status # COMMITTED

\* review_diff: the status a Diff must have to be reviewed
PendingReview(diff) == diff.status = EVALUATOR_APPROVED

\* the feedback stored as it came, without the default
StoredFeedback_NoDefault(feedback) == feedback

\* review_diff: request.feedback or "No feedback provided"
StoredFeedback(feedback) ==
    IF feedback \in {NoneStr, ""} THEN NoFeedbackProvided ELSE feedback

\* review_diff: the row after the review
Reviewed(diff, approved, feedback) ==
    IF approved
    THEN [diff EXCEPT !.status = HUMAN_APPROVED]
    ELSE [diff EXCEPT !.status = HUMAN_REJECTED,
                      !.human_feedback = StoredFeedback(feedback)]

review_diff(d, approved, feedback) ==
    /\ IF d \notin DOMAIN diffs
       THEN /\ last' = Response(404, "Diff not found")
            /\ UNCHANGED diffs
       ELSE IF ~PendingReview(diffs[d])
       THEN /\ last' = Response(400, "Diff is not pending review")
            /\ UNCHANGED diffs
       ELSE /\ diffs' = [diffs EXCEPT ![d] = Reviewed(@, approved, feedback)]
            /\ last' = Response(200, "")
    /\ UNCHANGED <<project, repo, creq, runs, orch, edge>>

\* ------------------------------------------------------------- commit
\* a commit guard that also lets through Diffs no human has reviewed
Approved_OrPending(diff) ==
    diff.status \in {HUMAN_APPROVED, EVALUATOR_APPROVED}

\* commit_diff: the status a Diff must have to be committed
Approved(diff) == diff.status = HUMAN_APPROVED

\* commit_diff: request.commit_message or diff.commit_message
MessageFor(commit_message, diff) ==
    IF commit_message \in {NoneStr, ""} THEN diff.commit_message
    ELSE commit_message

\* a commit that also stores the message it committed with in the Diff
Committed_StoresMessage(diff, commit_sha, commit_message) ==
    [diff EXCEPT !.status = COMMITTED, !.committed_sha = commit_sha,
                 !.commit_message = MessageFor(commit_message, diff)]

\* commit_diff: the Diff row after the commit
Committed(diff, commit_sha, commit_message) ==
    [diff EXCEPT !.status = COMMITTED, !.committed_sha = commit_sha]

\* a request is answered: its locals are gone
Answer(r, http, detail) ==
    /\ creq' = [creq EXCEPT ![r] = IdleReq]
    /\ last' = Response(http, detail)

\* commit_diff up to the comparison of the commits, all of it reads: the
\* Diff is looked up, its status is checked, the patch is applied to the
\* project's code and the head of the repository is compared with the base
\* commit of the Diff.  A request takes the first free slot.
commit_diff_check(r, d, m) ==
    /\ creq[r].pc = "idle"
    /\ \A q \in Reqs : q < r => creq[q].pc # "idle"
    /\ IF d \notin DOMAIN diffs THEN Answer(r, 404, "Diff not found")
       ELSE IF ~Approved(diffs[d])
       THEN Answer(r, 400, "Diff is not approved")
       ELSE LET new_code == apply_patch(project.current_code,
                                        diffs[d].diff_content)
            IN  IF new_code = NoneText
                THEN Answer(r, 400, "Failed to apply patch")
                ELSE IF get_head_commit(repo) # diffs[d].base_commit
                THEN Answer(r, 409, "Base commit mismatch")
                ELSE /\ creq' = [creq EXCEPT ![r] =
                                    [IdleReq EXCEPT !.pc = "write",
                                         !.diff_id = d, !.commit_message = m,
                                         !.new_code = new_code]]
                     /\ UNCHANGED last
    /\ UNCHANGED <<diffs, project, repo, runs, orch, edge>>

\* commit_diff in one server process: the coroutine has no await, so the
\* event loop starts a commit request when the one before was answered
commit_diff_enter(r, d, m) ==
    /\ \A q \in Reqs : creq[q].pc = "idle"
    /\ commit_diff_check(r, d, m)

\* commit_diff: the new code is written and committed to the repository
commit_diff_write(r) ==
    /\ creq[r].pc = "write"
    /\ \E out \in commit_changes(repo, creq[r].new_code,
                                 MessageFor(creq[r].commit_message,
                                            diffs[creq[r].diff_id]),
                                 "script.py") :
          /\ repo' = out[1]
          /\ creq' = [creq EXCEPT ![r].pc = "update", ![r].commit_sha = out[2]]
    /\ UNCHANGED <<diffs, project, last, runs, orch, edge>>

\* commit_diff: the Diff and the project rows are updated and committed to
\* the database, then the response is built; commit_sha[:8] raises
\* TypeError for None, after the database commit
commit_diff_update(r) ==
    /\ creq[r].pc = "update"
    /\ diffs' = [diffs EXCEPT ![creq[r].diff_id] =
                    Committed(@, creq[r].commit_sha, creq[r].commit_message)]
    /\ project' = [current_code |-> creq[r].new_code,
                   current_commit |-> creq[r].commit_sha]
    /\ IF creq[r].commit_sha = NoneSha
       THEN Answer(r, 500, "Internal server error")
       ELSE Answer(r, 200, "Successfully committed")
    /\ UNCHANGED <<repo, runs, orch, edge>>

\* ---------------------------------------------------- human rejection
\* services.vibecode_service.VibecodeService.handle_human_rejection: the
\* Diff is marked rejected whatever its status, and the database commit is
\* done; building the new prompt then reads session.initial_prompt, which
\* VibecodeSession does not have, so AttributeError is raised before
\* vibecode() is called
handle_human_rejection(d, feedback) ==
    /\ IF d \notin DOMAIN diffs
       THEN UNCHANGED diffs
       ELSE diffs' = [diffs EXCEPT ![d].status = HUMAN_REJECTED,
                                   ![d].human_feedback = feedback]
    /\ UNCHANGED <<project, repo, creq, last, runs, orch, edge>>

\* agents.all_agents.VibecodeService.handle_human_rejection: a new run is
\* started whose prompt carries the feedback; no Diff is read or written
agents_handle_human_rejection(d, feedback) ==
    /\ Len(runs) < MaxRuns
    /\ runs' = Append(runs, [prompt_kind |-> "human_rejected",
                             feedback |-> feedback])
    /\ UNCHANGED <<diffs, project, repo, creq, last, orch, edge>>

\* --------------------------------------------------------------- Next
Next ==
    \/ \E p \in Patches : create_diff(p)
    \/ \E d \in DiffIds, a \in BOOLEAN, f \in Feedbacks : review_diff(d, a, f)
    \/ \E r \in Reqs, d \in DiffIds, m \in CommitMessages :
          commit_diff_enter(r, d, m)
    \/ \E r \in Reqs : commit_diff_write(r)
    \/ \E r \in Reqs : commit_diff_update(r)

\* the endpoints of api/diffs.py served by one process: the review and
\* commit lifecycle of the Diffs of a project
Spec == Init /\ [][Next]_vars

\* the endpoints served by several processes that share the database and
\* the repository: commit requests overlap
NextWorkers ==
    \/ \E p \in Patches : create_diff(p)
    \/ \E d \in DiffIds, a \in BOOLEAN, f \in Feedbacks : review_diff(d, a, f)
    \/ \E r \in Reqs, d \in DiffIds, m \in CommitMessages :
          commit_diff_check(r, d, m)
    \/ \E r \in Reqs : commit_diff_write(r)
    \/ \E r \in Reqs : commit_diff_update(r)

SpecWorkers == Init /\ [][NextWorkers]_vars

\* the endpoints together with the two handle_human_rejection methods of
\* the services, which no endpoint calls
NextRejection ==
    \/ Next
    \/ \E d \in DiffIds : handle_human_rejection(d, GivenFeedback)
    \/ \E d \in DiffIds : agents_handle_human_rejection(d, GivenFeedback)

SpecRejection == Init /\ [][NextRejection]_vars


\* ------------------------------------------------------- orchestrator
\* range(3): the iterations of one call of vibecode()
MaxIterations == 3

SessionId == "s1"

\* _create_message_from_event: f"{session_id}_event_{sequence}"
MessageId(session_id, sequence) == <<session_id, sequence>>

\* a head of the loop body that leaves last_sequence as the stream before
\* left it
IterationHead_KeepsLast(run, iteration) ==
    [run EXCEPT !.pc = "stream", !.iteration = iteration,
                !.generator_calls =
                    Append(@, [iteration |-> iteration,
                               prompt |-> run.prompt,
                               current_code |-> run.current_code,
                               evaluator_feedback |-> <<>>,
                               proposed |-> {}]),
                !.events = 0, !.sequence_counter = 0,
                !.verdicts = <<>>, !.evaluation = NoEvaluation]

\* the head of the loop body of agents.all_agents.VibecodeService.vibecode:
\* the prompt of the generator is formatted from current_code and prompt,
\* the generator is started, and the locals of the stream loop are reset
IterationHead(run, iteration) ==
    [run EXCEPT !.pc = "stream", !.iteration = iteration,
                !.generator_calls =
                    Append(@, [iteration |-> iteration,
                               prompt |-> run.prompt,
                               current_code |-> run.current_code,
                               evaluator_feedback |-> <<>>,
                               proposed |-> {}]),
                !.events = 0, !.sequence_counter = 0,
                !.last_sequence = -1, !.verdicts = <<>>,
                !.evaluation = NoEvaluation]

\* a call of agents.all_agents.VibecodeService.vibecode, up to the first
\* start of the generator
vibecode(prompt, current_code) ==
    /\ vrun.pc = "idle"
    /\ vrun' = IterationHead(
                  [IdleRun EXCEPT !.impl = "agents", !.prompt = prompt,
                       !.current_code = current_code,
                       !.args = [prompt |-> prompt,
                                 current_code |-> current_code]], 0)
    /\ service' = [service EXCEPT !.last_iteration_count = 0 + 1]
    /\ UNCHANGED <<review, edge, messages, loop, engine>>

\* a sequencer that numbers every event of the stream
Numbered_Raw(raw) == TRUE

\* the stream loop: RawResponsesStreamEvent is skipped before the counter
Numbered(raw) == ~raw

\* the stream loop is running
Streaming(run) == run.pc = "stream"

\* a RawResponsesStreamEvent arrives
stream_raw ==
    /\ Streaming(vrun)
    /\ vrun.events < MaxEvents
    /\ vrun' = [vrun EXCEPT !.events = @ + 1,
                    !.sequence_counter =
                        IF Numbered(TRUE) THEN @ + 1 ELSE @]
    /\ UNCHANGED <<review, edge, messages, loop, service, engine>>

\* _create_message_from_event for the event that is given the number
\* sequence
Message(run, sequence) ==
    [id |-> MessageId(SessionId, sequence), session_id |-> SessionId,
     role |-> "assistant", content |-> <<"">>,
     stream_sequence |-> sequence, iteration |-> run.iteration]

\* a lookup that finds no row
Existing_Never(table, id) == FALSE

\* db.query(ConversationMessage).filter(ConversationMessage.id == id)
\* .first() is not None
Existing(table, id) == \E m \in table : m.id = id

\* _save_conversation_message_async: the row is inserted unless a row with
\* its id exists
Saved(table, message) ==
    IF Existing(table, message.id) THEN table
    ELSE table \cup {message}

\* a stream loop that keeps the first evaluation of the stream
Processed_FirstVerdict(run, output) ==
    LET sequence_counter == run.sequence_counter + 1
    IN  [run EXCEPT !.events = @ + 1,
                    !.sequence_counter = sequence_counter,
                    !.last_sequence = sequence_counter,
                    !.gaps = IF run.last_sequence >= 0
                                /\ sequence_counter # run.last_sequence + 1
                             THEN @ + 1 ELSE @,
                    !.verdicts = IF output.kind = "evaluation"
                                 THEN Append(@, output) ELSE @,
                    !.collected_messages =
                        Append(@, Message(run, sequence_counter)),
                    !.evaluation =
                        IF output.kind = "evaluation"
                           /\ @.kind # "evaluation"
                        THEN output ELSE @]

\* the body of the stream loop for an event that is not skipped; output is
\* event.item.output.  gaps counts the EVENT SEQUENCE GAP errors that were
\* logged, verdicts holds the evaluations of the stream in their order
Processed(run, output) ==
    LET sequence_counter == run.sequence_counter + 1
    IN  [run EXCEPT !.events = @ + 1,
                    !.sequence_counter = sequence_counter,
                    !.last_sequence = sequence_counter,
                    !.gaps = IF run.last_sequence >= 0
                                /\ sequence_counter # run.last_sequence + 1
                             THEN @ + 1 ELSE @,
                    !.verdicts = IF output.kind = "evaluation"
                                 THEN Append(@, output) ELSE @,
                    !.collected_messages =
                        Append(@, Message(run, sequence_counter)),
                    !.evaluation =
                        IF output.kind = "evaluation" THEN output ELSE @]

\* what a coroutine awaited for the message (iteration, sequence): op is
\* "save" (the write to the database), "emit" (an emission of the
\* transport that returned) or "emit_failed" (one that raised)
Effect(op, iteration, sequence) ==
    [op |-> op, iteration |-> iteration, sequence |-> sequence]

\* the outcome of awaiting an emission of the transport
Emitted(emit_ok) == IF emit_ok THEN "emit" ELSE "emit_failed"

\* a loop that leaves the emission to later
StreamEffects_SaveOnly(run, sequence, emit_ok) ==
    <<Effect("save", run.iteration, sequence)>>

\* the stream loop after collected_messages.append(message): the save is
\* awaited, then the emission, inside try/except Exception
StreamEffects(run, sequence, emit_ok) ==
    <<Effect("save", run.iteration, sequence),
      Effect(Emitted(emit_ok), run.iteration, sequence)>>

\* an event without evaluation arrives: the agent was updated, a tool was
\* called, a message was put out
stream_item(emit_ok) ==
    /\ Streaming(vrun)
    /\ vrun.events < MaxEvents
    /\ vrun' = Processed(vrun, NoEvaluation)
    /\ messages' = Saved(messages, Message(vrun, vrun.sequence_counter + 1))
    /\ loop' = [loop EXCEPT !.effects =
                    @ \o StreamEffects(vrun, vrun.sequence_counter + 1,
                                       emit_ok)]
    /\ UNCHANGED <<review, edge, service, engine>>

\* a validation that lets every patch through that applied
Invalid_Never(validation) == FALSE

\* submit_patch: if not validation["valid"]
Invalid(validation) == ~validation.valid

\* the tool submit_patch; evaluator_output is what the evaluator answers
\* when it is run.  evaluated tells whether the evaluator was run.
submit_patch(current_code, patch, evaluator_output) ==
    LET validation == validate_patch(current_code, patch)
    IN  IF validation.raised
        THEN [evaluated |-> FALSE, output |-> NoEvaluation]
        ELSE IF Invalid(validation)
        THEN [evaluated |-> FALSE,
              output |-> EvaluationResult(
                            FALSE,
                            <<ValidationFailedPrefix>> \o validation.error,
                            <<"">>, "validator")]
        ELSE [evaluated |-> TRUE, output |-> evaluator_output]

\* the generator calls submit_patch and the output of the tool arrives
stream_tool_output(patch, evaluator_output, emit_ok) ==
    /\ Streaming(vrun)
    /\ vrun.events < MaxEvents
    /\ LET tool == submit_patch(vrun.current_code, patch, evaluator_output)
           called == [vrun EXCEPT
                         !.generator_calls[Len(vrun.generator_calls)].proposed
                             = @ \cup {patch},
                         !.evaluator_calls =
                             IF tool.evaluated
                             THEN @ \cup {[iteration |-> vrun.iteration,
                                           patch |-> patch]}
                             ELSE @]
       IN  vrun' = Processed(called, tool.output)
    /\ messages' = Saved(messages, Message(vrun, vrun.sequence_counter + 1))
    /\ loop' = [loop EXCEPT !.effects =
                    @ \o StreamEffects(vrun, vrun.sequence_counter + 1,
                                       emit_ok)]
    /\ UNCHANGED <<review, edge, service, engine>>

\* the prompt after a rejection:
\* f"The evaluator rejected your patch. Feedback: {evaluation.reasoning}
\* \n\nPlease try again."
RejectionPrompt(reasoning) ==
    <<RejectedPrefix>> \o reasoning \o <<PleaseTryAgain>>

\* a text answer that is followed by another iteration
TextReturns_Never(evaluation) == FALSE

\* no evaluation was seen in the stream: text mode
TextReturns(evaluation) == evaluation.kind # "evaluation"

\* a loop that runs its body once more
MoreIterations_Four(iteration) == iteration < MaxIterations

\* for iteration in range(3): the body runs again after this iteration
MoreIterations(iteration) == iteration + 1 < MaxIterations

\* the stream of the generator ends: the code after the stream loop, and
\* the head of the next iteration if there is one
stream_end(final_output) ==
    /\ Streaming(vrun)
    /\ IF vrun.evaluation.kind = "evaluation" /\ vrun.evaluation.approved
       THEN vrun' = [vrun EXCEPT !.pc = "approved",
                         !.result = Result(<<>>, GeneratedDiffId, <<>>, <<>>)]
       ELSE IF TextReturns(vrun.evaluation)
       THEN vrun' = [vrun EXCEPT !.pc = "text",
                         !.result = Result(final_output, NoneStr, <<>>, <<>>)]
       ELSE LET again == [vrun EXCEPT !.prompt =
                             RejectionPrompt(vrun.evaluation.reasoning)]
            IN  IF MoreIterations(vrun.iteration)
                THEN vrun' = IterationHead(again, vrun.iteration + 1)
                ELSE vrun' = [again EXCEPT !.pc = "exhausted",
                                  !.result = Result(MaximumIterationReached,
                                                    NoneStr, <<>>, <<>>)]
    /\ service' = [service EXCEPT !.last_iteration_count =
                       IF Streaming(vrun') THEN vrun'.iteration + 1 ELSE @]
    /\ UNCHANGED <<review, edge, messages, loop, engine>>

\* what vibecoder_agent.generate answers in
\* services.vibecode_service.VibecodeService.vibecode
ServiceResponses ==
    {[type |-> "text", content |-> f, patch |-> <<>>] : f \in FinalOutputs}
    \cup {[type |-> "patch", content |-> <<>>, patch |-> p] :
             p \in ProposedPatches}
    \cup {[type |-> "other", content |-> <<>>, patch |-> <<>>]}

\* a call of services.vibecode_service.VibecodeService.vibecode, up to the
\* loop: the project is found
services_vibecode(prompt, current_code) ==
    /\ vrun.pc = "idle"
    /\ vrun' = [IdleRun EXCEPT !.pc = "services", !.impl = "services",
                    !.prompt = prompt, !.current_code = current_code,
                    !.args = [prompt |-> prompt,
                              current_code |-> current_code]]
    /\ UNCHANGED <<review, edge, messages, loop, service, engine>>

\* ConversationMessage.stream_sequence of a row that was given none
NoneSequence == 0

\* the default of ConversationMessage.id: the n-th uuid4 that was drawn
Uuid(n) == <<"uuid", n>>

\* the number of the uuid4 drawn for a new row of the table, which no row
\* of the table holds: one more than the last that is stored
NextUuid(table) ==
    LET used == {m.id[2] : m \in {r \in table : r.id[1] = "uuid"}}
    IN  IF used = {} THEN 1
        ELSE 1 + CHOOSE n \in used : \A k \in used : k <= n

\* json.dumps(response), as far as the type of the response shows in it
json_dumps(response) == <<"json", response.type>>

\* the row _save_conversation_message_async of the services builds:
\* ConversationMessage(session_id=..., role=agent_type, content=...,
\* iteration=iteration), no id being passed
ServiceMessage(table, task) ==
    [id |-> Uuid(NextUuid(table)),
     session_id |-> task.session_id, role |-> "vibecoder",
     content |-> task.content,
     stream_sequence |-> NoneSequence, iteration |-> task.iteration]

\* _stream_agent_response: the emission is awaited, outside of any try;
\* if it returns, the save is handed to asyncio.create_task
StreamAgentResponse(l, response, iteration, session_id, emit_ok) ==
    [l EXCEPT !.effects =
                  Append(@, Effect(Emitted(emit_ok), iteration,
                                   NoneSequence)),
              !.tasks =
                  IF emit_ok
                  THEN Append(@, [iteration |-> iteration,
                                  session_id |-> session_id,
                                  content |-> json_dumps(response)])
                  ELSE @]

\* one iteration of the loop of the services' vibecode: the generator is
\* run and its response is streamed.  SocketIOManager defines no
\* emit_to_room, the transport is what socketio_manager is at run time;
\* an emission that raises ends the call.  Then a text is returned.  For
\* a patch validate_patch is called, and validation.valid raises
\* AttributeError, validate_patch returning a dict (if it has not raised
\* TypeError itself); nothing catches it.  Any other response falls
\* through to the next iteration.
ServicesStep(run, response, emit_ok) ==
    LET called == [run EXCEPT !.generator_calls =
                      Append(@, [iteration |-> run.iteration,
                                 prompt |-> run.prompt,
                                 current_code |-> run.current_code,
                                 evaluator_feedback |-> <<>>,
                                 proposed |->
                                     IF response.type = "patch"
                                     THEN {response.patch} ELSE {}])]
    IN  IF ~emit_ok
        THEN [called EXCEPT !.pc = "raised"]
        ELSE IF response.type = "text"
        THEN [called EXCEPT !.pc = "text",
                  !.result = Result(response.content, NoneStr, <<>>, <<>>)]
        ELSE IF response.type = "patch"
        THEN [called EXCEPT !.pc = "raised"]
        ELSE IF MoreIterations(run.iteration)
        THEN [called EXCEPT !.iteration = @ + 1]
        ELSE [called EXCEPT !.pc = "exhausted",
                  !.result = Result(<<>>, NoneStr, <<>>,
                                    MaxIterationsReached)]

\* the generator of the services answers response, and the emission of
\* the response returns or raises
services_iteration(response, emit_ok) ==
    /\ vrun.pc = "services"
    /\ vrun' = ServicesStep(vrun, response, emit_ok)
    /\ loop' = StreamAgentResponse(loop, response, vrun.iteration,
                                   vrun.session_id, emit_ok)
    /\ service' = [service EXCEPT !.last_iteration_count =
                       vrun.iteration + 1]
    /\ UNCHANGED <<review, edge, messages, engine>>

\* a loop that runs the task that was created last
NextTask_Last(tasks) == Len(tasks)

\* the event loop runs the tasks that are ready in the order in which
\* asyncio.create_task queued them
NextTask(tasks) == 1

\* the event loop runs a task of _save_conversation_message_async of the
\* services: db.add(message), db.commit(); it awaits nothing
background_save ==
    /\ loop.tasks # <<>>
    /\ LET n == NextTask(loop.tasks)
           task == loop.tasks[n]
       IN  /\ messages' = messages \cup {ServiceMessage(messages, task)}
           /\ loop' = [loop EXCEPT
                           !.effects = Append(@, Effect("save",
                                                        task.iteration,
                                                        NoneSequence)),
                           !.tasks = RemoveAt(@, n)]
    /\ UNCHANGED <<review, edge, vrun, service, engine>>

\* a call of vibecode() in one of the two orchestrators,
\* agents/all_agents.py (with the streams of its generator) or
\* services/vibecode_service.py (which the endpoint send_message calls)
NextVibecode ==
    \/ vibecode(UserPrompt, InitialCode)
    \/ stream_raw
    \/ stream_item(TRUE)
    \/ \E p \in ProposedPatches, e \in EvaluatorOutputs :
          stream_tool_output(p, e, TRUE)
    \/ \E f \in FinalOutputs : stream_end(f)
    \/ services_vibecode(UserPrompt, InitialCode)
    \/ \E r \in ServiceResponses : services_iteration(r, TRUE)
    \/ background_save

SpecVibecode == Init /\ [][NextVibecode]_vars

\* the same where the coroutine is run on: every stream delivers its
\* events and ends, every generator answers
SpecVibecodeFair == SpecVibecode /\ WF_vars(NextVibecode)

\* a call of vibecode() is under way
Running(run) == run.pc \in {"stream", "services"}

\* the task of the call was cancelled
WasCancelled(l) == \E i \in 1..Len(l.effects) : l.effects[i].op = "cancel"

\* a coroutine that catches the cancellation and goes on
Cancelled_Caught(run) == run

\* asyncio.CancelledError is raised at the await at which vibecode() is
\* suspended; it is no Exception, so that neither the try around the
\* emission nor the one around the loop catches it, and the call ends
Cancelled(run) == [run EXCEPT !.pc = "cancelled"]

\* the calling context is cancelled while a call of vibecode() is under
\* way
cancel ==
    /\ Running(vrun)
    /\ ~WasCancelled(loop)
    /\ vrun' = Cancelled(vrun)
    /\ loop' = [loop EXCEPT !.effects =
                    Append(@, Effect("cancel", vrun.iteration,
                                     vrun.sequence_counter))]
    /\ UNCHANGED <<review, edge, messages, service, engine>>

\* the calls of vibecode() where the caller may be cancelled
NextCancel ==
    \/ NextVibecode
    \/ cancel

SpecCancel == Init /\ [][NextCancel]_vars

OtherPrompt == <<"Rename the function to greet">>

\* request.prompt
Prompts == {UserPrompt, OtherPrompt}

\* --------------------------------------------------- several sessions
\* the session s calls vibecode() of the global instance vibecode_service:
\* the head of the first iteration writes self.last_iteration_count
session_vibecode(s, prompt) ==
    /\ loop.calls[s].pc = "idle"
    /\ loop' = [loop EXCEPT !.calls[s] =
                    [pc |-> "stream", iteration |-> 0, prompt |-> prompt]]
    /\ service' = [service EXCEPT !.last_iteration_count = 0 + 1]
    /\ UNCHANGED <<review, edge, vrun, messages, engine>>

\* the stream of the generator of the session s ends, evaluation being
\* what the stream held; after a rejection the head of the next iteration
\* writes self.last_iteration_count
session_stream_end(s, evaluation) ==
    /\ loop.calls[s].pc = "stream"
    /\ LET call == loop.calls[s]
           next ==
               IF evaluation.kind = "evaluation" /\ evaluation.approved
               THEN [call EXCEPT !.pc = "approved"]
               ELSE IF TextReturns(evaluation)
               THEN [call EXCEPT !.pc = "text"]
               ELSE IF MoreIterations(call.iteration)
               THEN [call EXCEPT !.iteration = @ + 1,
                         !.prompt = RejectionPrompt(evaluation.reasoning)]
               ELSE [call EXCEPT !.pc = "exhausted",
                         !.prompt = RejectionPrompt(evaluation.reasoning)]
       IN  /\ loop' = [loop EXCEPT !.calls[s] = next]
           /\ service' = [service EXCEPT !.last_iteration_count =
                              IF next.pc = "stream" THEN next.iteration + 1
                              ELSE @]
    /\ UNCHANGED <<review, edge, vrun, messages, engine>>

\* the calls of vibecode() of several sessions on the one event loop,
\* each taking its steps between the awaits of the others
NextSessions ==
    \/ \E s \in Sessions, p \in Prompts : session_vibecode(s, p)
    \/ \E s \in Sessions, e \in EvaluatorOutputs \cup {NoEvaluation} :
          session_stream_end(s, e)

SpecSessions == Init /\ [][NextSessions]_vars

\* the same calls with a transport whose emissions may raise
NextTransport ==
    \/ vibecode(UserPrompt, InitialCode)
    \/ stream_raw
    \/ \E emit_ok \in BOOLEAN : stream_item(emit_ok)
    \/ \E p \in ProposedPatches, e \in EvaluatorOutputs,
          emit_ok \in BOOLEAN : stream_tool_output(p, e, emit_ok)
    \/ \E f \in FinalOutputs : stream_end(f)
    \/ services_vibecode(UserPrompt, InitialCode)
    \/ \E r \in ServiceResponses, emit_ok \in BOOLEAN :
          services_iteration(r, emit_ok)
    \/ background_save

SpecTransport == Init /\ [][NextTransport]_vars

\* ------------------------------------------------------------ sessions
\* the requests to POST /sessions/{session_id}/messages that are served
MaxRequests == 2

\* the message_id of a request, when the client supplies one
ClientIds == {<<"client", 1>>, <<"client", 2>>}

\* request.message_id of a request without one
NoMessageId == <<"none", 0>>

\* ConversationMessage.iteration of a user message
NoneIteration == -1

\* send_message: the ConversationMessage of the prompt of the user;
\* message_id = request.message_id or str(uuid.uuid4())
UserMessage(table, message_id, prompt) ==
    [id |-> IF message_id = NoMessageId
            THEN Uuid(NextUuid(table)) ELSE message_id,
     session_id |-> SessionId, role |-> "user", content |-> prompt,
     stream_sequence |-> NoneSequence, iteration |-> NoneIteration]

\* a send_message that answers a message it knows without a run
CallsVibecode_OnlyNew(existing_message) == ~existing_message

\* send_message: the call of vibecode() follows the if and the else of the
\* lookup alike
CallsVibecode(existing_message) == TRUE

\* POST /sessions/{session_id}/messages, the session and its project
\* being found, while no other request is being served: the message of
\* the user is stored unless its message_id was given and is known, and
\* vibecode() of the services is called with the code of the project
send_message(message_id, prompt) ==
    LET existing_message ==
            message_id # NoMessageId /\ Existing(messages, message_id)
        called == CallsVibecode(existing_message)
    IN  /\ ~Running(vrun)
        /\ loop.served < MaxRequests
        /\ messages' =
               IF existing_message THEN messages
               ELSE messages
                    \cup {UserMessage(messages, message_id, prompt)}
        /\ vrun' =
               IF ~called THEN vrun
               ELSE [IdleRun EXCEPT !.pc = "services", !.impl = "services",
                         !.prompt = prompt,
                         !.current_code = project.current_code,
                         !.args = [prompt |-> prompt,
                                   current_code |-> project.current_code]]
        /\ loop' = [loop EXCEPT
                        !.served = @ + 1,
                        !.posts = Append(@, [message_id |-> message_id,
                                             prompt |-> prompt]),
                        !.started = IF called THEN Append(@, prompt) ELSE @]
        /\ UNCHANGED <<review, edge, service, engine>>

\* the contents of the messages handed to the agents' save
Contents == {<<"">>, <<"Done.">>}

\* the dicts handed to _save_conversation_message_async of the agents
MessageData ==
    {[id |-> MessageId(SessionId, 1), session_id |-> SessionId,
      role |-> "assistant", content |-> c, stream_sequence |-> 1,
      iteration |-> i] : c \in Contents, i \in {0, 1}}

\* a call of _save_conversation_message_async of the agents
save_conversation_message(message_data) ==
    /\ ~Running(vrun)
    /\ loop.served < MaxRequests
    /\ messages' = Saved(messages, message_data)
    /\ loop' = [loop EXCEPT
                    !.served = @ + 1,
                    !.effects = Append(@, Effect("save",
                                                 message_data.iteration,
                                                 message_data.stream_sequence))]
    /\ UNCHANGED <<review, edge, vrun, service, engine>>

\* the endpoint of the messages of a session, its requests being served
\* one after the other, the generator answering a text or a patch, and
\* the save of the agents called by itself
NextSession ==
    \/ \E i \in ClientIds \cup {NoMessageId}, p \in Prompts :
          send_message(i, p)
    \/ \E r \in {x \in ServiceResponses : x.type # "other"} :
          services_iteration(r, TRUE)
    \/ background_save
    \/ \E d \in MessageData : save_conversation_message(d)

SpecSession == Init /\ [][NextSession]_vars


\* --------------------------------------------------------- diff engine
\* the lines of the texts handed to the diff engine
MaxLines == 2

\* the lines of the body of a hunk
MaxHunkLines == 2

LineTexts == {"a", "b"}

\* the sequences over S of length 1 to n
SeqsUpTo(S, n) == UNION {[1..k -> S] : k \in 1..n}

\* original_code, as original_code.split('\n') sees it: a last line ""
\* is a newline at the end of the text
Originals == SeqsUpTo(LineTexts \cup {""}, MaxLines) \cup {InitialCode}

\* the bodies of a hunk: context lines, removals and additions
HunkBodies ==
    SeqsUpTo({Ln(k, t) : k \in {" ", "-", "+"}, t \in LineTexts},
             MaxHunkLines)

\* the lines of a body that stand for a line of the original
OldLines(body) == SelectSeq(body, LAMBDA l : l.k \in {" ", "-"})

\* the lines of a body that stand for a line of the result
NewLines(body) == SelectSeq(body, LAMBDA l : l.k \in {" ", "+"})

\* a patch of one hunk: '@@ -old_start,n +old_start,m @@' and its body
OneHunk(old_start, body) ==
    <<Hdr(old_start, Len(OldLines(body)), old_start, Len(NewLines(body)))>>
    \o body

\* patches that are not well formed: a line that starts with '@@' and
\* is no hunk header, a header whose counts are not those of the body, a
\* line in the body of a hunk that starts with none of ' ', '-' and '+'
MalformedPatches ==
    {<<Ln("@@bad", "@ -one +one @@"), Ln("+", "a")>>,
     <<Hdr(1, 5, 1, 7), Ln(" ", "a"), Ln("+", "b")>>,
     <<Hdr(1, 1, 1, 2), Ln(" ", "a"), Ln("other", "b"), Ln("+", "b")>>}

\* patches without a hunk: no text, the two header lines of a diff, lines
\* of prose
HunklessPatches ==
    {<<>>,
     <<Ln("---", "-- a/code.py"), Ln("+++", "++ b/code.py")>>,
     <<Ln("other", "No changes are needed."), Ln("other", "a")>>}

\* the patches handed to the diff engine
EnginePatches ==
    {OneHunk(os, b) : os \in 0..(MaxLines + 1), b \in HunkBodies}
    \cup {PatchAddComment, PatchBreakSyntax, PatchRemoveThree}
    \cup MalformedPatches \cup HunklessPatches

RECURSIVE simple_hunk(_, _, _)
\* apply_simple_patch, 'Process hunk content': st is the state of the
\* loops, the index i into patch_lines (1-based), result and original_idx
simple_hunk(patch_lines, lines, st) ==
    IF st.i > Len(patch_lines) \/ StartsWithAt(patch_lines[st.i]) THEN st
    ELSE LET hunk_line == patch_lines[st.i]
         IN  simple_hunk(
                 patch_lines, lines,
                 IF StartsWithPlus(hunk_line)
                 THEN [st EXCEPT !.i = @ + 1,
                           !.result = Append(@, hunk_line.s)]
                 ELSE IF StartsWithMinus(hunk_line)
                 THEN [st EXCEPT !.i = @ + 1, !.original_idx = @ + 1]
                 ELSE IF StartsWithSpace(hunk_line)
                 THEN [st EXCEPT !.i = @ + 1,
                           !.result = Append(@, hunk_line.s),
                           !.original_idx = @ + 1]
                 ELSE [st EXCEPT !.i = @ + 1])

\* apply_simple_patch, 'Add unchanged lines before this hunk', and the
\* loop 'Add remaining unchanged lines' with old_start = len(lines)
copy_until(lines, st, old_start) ==
    LET stop == IF old_start < Len(lines) THEN old_start ELSE Len(lines)
    IN  IF st.original_idx < stop
        THEN [st EXCEPT
                 !.result = @ \o SubSeq(lines, st.original_idx + 1, stop),
                 !.original_idx = stop]
        ELSE st

RECURSIVE simple_from(_, _, _)
\* apply_simple_patch: the outer while loop
simple_from(patch_lines, lines, st) ==
    IF st.i > Len(patch_lines) THEN st
    ELSE LET line == patch_lines[st.i]
         IN  IF line.k \in {"---", "+++"}
             THEN simple_from(patch_lines, lines, [st EXCEPT !.i = @ + 1])
             ELSE IF line.k = "@@"
             THEN simple_from(
                      patch_lines, lines,
                      simple_hunk(patch_lines, lines,
                                  [copy_until(lines, st, line.old_start - 1)
                                       EXCEPT !.i = @ + 1]))
             ELSE simple_from(patch_lines, lines, [st EXCEPT !.i = @ + 1])

\* DiffParser.apply_simple_patch; nothing in it raises
apply_simple_patch(original_code, patch) ==
    LET st == simple_from(Strip(patch), original_code,
                          [i |-> 1, result |-> <<>>, original_idx |-> 0])
    IN  Join(copy_until(original_code, st, Len(original_code)).result)

\* a hunk is valid against the original: the lines it takes as context
\* or removes are the lines of the original from old_start on
valid_hunk(original_code, hunk) ==
    LET old == OldLines(hunk.hunk_lines)
    IN  /\ hunk.old_start >= 1
        /\ hunk.old_start - 1 + Len(old) <= Len(original_code)
        /\ \A i \in 1..Len(old) :
              old[i].s = original_code[hunk.old_start - 1 + i]

\* the patch has hunks, and they are valid against the original
valid_patch(original_code, patch) ==
    LET hunks == parse_hunks(Strip(patch))
    IN  /\ hunks # <<>>
        /\ \A i \in 1..Len(hunks) : valid_hunk(original_code, hunks[i])

\* the lines of context of difflib.unified_diff, its default n
ContextLines == 3

\* content.splitlines(keepends=True): the lines of a text, nl telling
\* whether the line ends with a newline
splitlines(content) ==
    IF content = <<"">> THEN <<>>
    ELSE IF content[Len(content)] = ""
    THEN [i \in 1..(Len(content) - 1) |-> [s |-> content[i], nl |-> TRUE]]
    ELSE [i \in 1..Len(content) |->
             [s |-> content[i], nl |-> i < Len(content)]]

RECURSIVE CommonPrefix(_, _, _)
\* the number of lines at the start of a and b that are equal, from n on
CommonPrefix(a, b, n) ==
    IF n < Len(a) /\ n < Len(b) /\ a[n + 1] = b[n + 1]
    THEN CommonPrefix(a, b, n + 1) ELSE n

\* the opcodes of difflib for two sequences of lines that differ: equal
\* lines at the start, the lines in between replaced, equal lines at the
\* end
Opcodes(a, b) ==
    LET Reversed(l) == [i \in 1..Len(l) |-> l[Len(l) + 1 - i]]
        pre == CommonPrefix(a, b, 0)
        ra == SubSeq(a, pre + 1, Len(a))
        rb == SubSeq(b, pre + 1, Len(b))
        suf == CommonPrefix(Reversed(ra), Reversed(rb), 0)
    IN  [prefix |-> SubSeq(a, 1, pre),
         removed |-> SubSeq(ra, 1, Len(ra) - suf),
         added |-> SubSeq(rb, 1, Len(rb) - suf),
         suffix |-> SubSeq(ra, Len(ra) - suf + 1, Len(ra))]

\* the texts for which SequenceMatcher has no other block to match than
\* the equal lines at the start and at the end: no line occurs in two of
\* the four parts
DiffDetermined(old_content, new_content) ==
    LET o == Opcodes(splitlines(old_content), splitlines(new_content))
        Range(l) == {l[i] : i \in 1..Len(l)}
    IN  /\ Range(o.removed) \cap Range(o.added) = {}
        /\ (Range(o.removed) \cup Range(o.added))
               \cap (Range(o.prefix) \cup Range(o.suffix)) = {}
        /\ Range(o.prefix) \cap Range(o.suffix) = {}

\* the lines unified_diff yields after the header of the hunk: the last
\* lines of context before the change, the change, the first after it
DiffBody(a, b) ==
    LET o == Opcodes(a, b)
        LastOf(l, n) ==
            SubSeq(l, IF Len(l) > n THEN Len(l) - n + 1 ELSE 1, Len(l))
        FirstOf(l, n) == SubSeq(l, 1, IF Len(l) > n THEN n ELSE Len(l))
        Tag(k, l) == [i \in 1..Len(l) |->
                         [k |-> k, s |-> l[i].s, nl |-> l[i].nl]]
    IN  Tag(" ", LastOf(o.prefix, ContextLines)) \o Tag("-", o.removed)
        \o Tag("+", o.added) \o Tag(" ", FirstOf(o.suffix, ContextLines))

\* a removed line without a newline at its end and the added line that
\* follows it on the same line of the diff
Glue(x, y) ==
    LET GlueTable ==
            {<<"a", "", "a+">>, <<"a", "a", "a+a">>, <<"a", "b", "a+b">>,
             <<"b", "", "b+">>, <<"b", "a", "b+a">>, <<"b", "b", "b+b">>}
    IN  (CHOOSE t \in GlueTable : t[1] = x /\ t[2] = y)[3]

RECURSIVE TextLines(_, _, _)
\* ''.join(diff) split into lines again: a line of the body starts a line
\* of the text when what was joined before it ended with a newline
TextLines(body, i, joined) ==
    IF i > Len(body) THEN <<>>
    ELSE IF joined THEN TextLines(body, i + 1, ~body[i].nl)
    ELSE <<Ln(body[i].k,
              IF ~body[i].nl /\ i < Len(body)
              THEN Glue(body[i].s, body[i + 1].s) ELSE body[i].s)>>
         \o TextLines(body, i + 1, ~body[i].nl)

\* the first line of the diff after its first character: lineterm is ''
\* and the lines are joined with '', so that '--- a/file', '+++ b/file',
\* the header of the hunk and the first line of the body are one line
JoinedHeader == "-- a/file+++ b/file@@ -l,s +l,s @@"

\* DiffParser.create_unified_diff, for texts of so few lines that they
\* make one hunk
create_unified_diff(old_content, new_content) ==
    LET a == splitlines(old_content)
        b == splitlines(new_content)
    IN  IF a = b THEN <<>>
        ELSE <<Ln("---", JoinedHeader)>> \o TextLines(DiffBody(a, b), 1, TRUE)

\* the texts handed to create_unified_diff
DiffTexts == SeqsUpTo(LineTexts \cup {""}, MaxLines)

\* a call of DiffParser.create_unified_diff whose diff is then applied to
\* the old content with DiffParser.apply_patch
engine_create_unified_diff(old_content, new_content) ==
    /\ engine = IdleEngine
    /\ DiffDetermined(old_content, new_content)
    /\ LET patch == create_unified_diff(old_content, new_content)
       IN  engine' = [IdleEngine EXCEPT !.fn = "create_unified_diff",
                         !.original = old_content, !.patch = patch,
                         !.new_content = new_content,
                         !.modified = apply_patch(old_content, patch)]
    /\ UNCHANGED <<review, edge, vrun, messages, loop, service>>

\* a call of DiffParser.apply_patch
engine_apply_patch(original_code, patch) ==
    /\ engine = IdleEngine
    /\ engine' = [IdleEngine EXCEPT !.fn = "apply_patch",
                      !.original = original_code, !.patch = patch,
                      !.modified = apply_patch(original_code, patch)]
    /\ UNCHANGED <<review, edge, vrun, messages, loop, service>>

\* a call of DiffParser.apply_simple_patch
engine_apply_simple_patch(original_code, patch) ==
    /\ engine = IdleEngine
    /\ engine' = [IdleEngine EXCEPT !.fn = "apply_simple_patch",
                      !.original = original_code, !.patch = patch,
                      !.modified = apply_simple_patch(original_code, patch)]
    /\ UNCHANGED <<review, edge, vrun, messages, loop, service>>

\* a call of validate_patch
engine_validate_patch(original, patch) ==
    /\ engine = IdleEngine
    /\ engine' = [IdleEngine EXCEPT !.fn = "validate_patch",
                      !.original = original, !.patch = patch,
                      !.validation = validate_patch(original, patch)]
    /\ UNCHANGED <<review, edge, vrun, messages, loop, service>>

\* the inputs a call of the diff engine can be given: those of S as long
\* as no call was made, none afterwards
Inputs(S) == IF engine = IdleEngine THEN S ELSE {}

\* the functions of the diff engine, called with originals and patches of
\* a few lines; engine holds the first call and what it returned
NextDiffEngine ==
    \/ \E o \in Inputs(Originals), p \in Inputs(EnginePatches) :
          engine_apply_patch(o, p)
    \/ \E o \in Inputs(Originals), p \in Inputs(EnginePatches) :
          engine_apply_simple_patch(o, p)
    \/ \E o \in Inputs(Originals), p \in Inputs(EnginePatches) :
          engine_validate_patch(o, p)
    \/ \E o \in Inputs(DiffTexts), n \in Inputs(DiffTexts) :
          engine_create_unified_diff(o, n)

SpecDiffEngine == Init /\ [][NextDiffEngine]_vars

\* ============================================================== claims

\* the transitions of Diff.status that the lifecycle allows
AllowedEdges ==
    {<<EVALUATOR_APPROVED, HUMAN_APPROVED>>,
     <<HUMAN_APPROVED, COMMITTED>>,
     <<EVALUATOR_APPROVED, HUMAN_REJECTED>>}

\* C1: under review, commit and handle_human_rejection the status of a
\* Diff only changes along evaluator_approved -> human_approved,
\* human_approved -> committed or evaluator_approved -> human_rejected;
\* committed and human_rejected are never left.
C1_StatusMovesForward ==
    [][\A d \in DOMAIN diffs :
          diffs'[d].status # diffs[d].status
          => <<diffs[d].status, diffs'[d].status>> \in AllowedEdges]_vars

\* C2: a Diff with status committed has a committed version identifier
\* that is an entry of the version store (so a failed write never leads to
\* status committed).
C2_CommittedIsStored ==
    \A d \in DOMAIN diffs :
        diffs[d].status = COMMITTED
        => diffs[d].committed_sha \in 1..Len(repo.commits)

\* C3: of two Diffs that share their base version at most one ends in
\* status committed.
C3_OneCommitPerBase ==
    \A d1, d2 \in DOMAIN diffs :
        (d1 # d2 /\ diffs[d1].base_commit = diffs[d2].base_commit)
        => ~(diffs[d1].status = COMMITTED /\ diffs[d2].status = COMMITTED)

\* C4: commit on a human_approved Diff whose base_commit is not the head of
\* the version store is answered 409 'Base commit mismatch'; the Diff, the
\* version store and the project are left as they were.
C4_BaseMismatchIs409 ==
    [][\A r \in Reqs, d \in DOMAIN diffs, m \in CommitMessages :
          (/\ diffs[d].status = HUMAN_APPROVED
           /\ diffs[d].base_commit # repo.head
           /\ commit_diff_check(r, d, m))
          => /\ last' = Response(409, "Base commit mismatch")
             /\ UNCHANGED <<diffs, repo, project>>]_vars

\* C5: review on a Diff whose status is not evaluator_approved is answered
\* 400 'Diff is not pending review' and changes neither the Diff (status,
\* human_feedback) nor the version store nor the project.
C5_ReviewNotPendingFails ==
    [][\A d \in DOMAIN diffs, a \in BOOLEAN, f \in Feedbacks :
          (diffs[d].status # EVALUATOR_APPROVED /\ review_diff(d, a, f))
          => /\ last' = Response(400, "Diff is not pending review")
             /\ UNCHANGED <<diffs, repo, project, creq>>]_vars

\* C5 happened: a review of a committed or rejected Diff was refused
C5_Witness ==
    /\ last = Response(400, "Diff is not pending review")
    /\ diffs # <<>>
    /\ \A d \in DOMAIN diffs :
          diffs[d].status \in {COMMITTED, HUMAN_REJECTED}

\* C6: commit on a Diff whose status is not human_approved is answered 400
\* 'Diff is not approved' and changes neither the Diff (status,
\* committed_sha) nor the version store nor the project.
C6_CommitNotApprovedFails ==
    [][\A r \in Reqs, d \in DOMAIN diffs, m \in CommitMessages :
          (diffs[d].status # HUMAN_APPROVED /\ commit_diff_check(r, d, m))
          => /\ last' = Response(400, "Diff is not approved")
             /\ UNCHANGED <<diffs, repo, project, creq>>]_vars

\* C6 happened: a second commit of a committed Diff was refused
C6_Witness ==
    /\ last = Response(400, "Diff is not approved")
    /\ diffs # <<>>
    /\ \A d \in DOMAIN diffs :
          diffs[d].status = COMMITTED /\ diffs[d].committed_sha # NoneSha

\* C7: when commit completes for a Diff whose base_commit was the head,
\* the patched text is the content of a new entry of the version store,
\* the Diff is committed, and the store's head, the Diff's committed_sha
\* and the project's current_commit are the same identifier, the
\* project's current_code being the patched text.
C7_CommitRecordsNewVersion ==
    [][\A r \in Reqs :
          commit_diff_update(r)
          => LET d == creq[r].diff_id
             IN  /\ diffs'[d].status = COMMITTED
                 /\ repo'.head # NoneSha
                 /\ repo'.commits[repo'.head].content = creq[r].new_code
                 /\ diffs'[d].committed_sha = repo'.head
                 /\ project'.current_commit = repo'.head
                 /\ project'.current_code = creq[r].new_code]_vars

\* C8 as stated: review on an evaluator_approved Diff sets human_approved
\* when approved, and human_rejected with the feedback that was supplied
\* when not; no other Diff changes.
C8_StoresSuppliedFeedback ==
    [][\A d \in DOMAIN diffs, a \in BOOLEAN, f \in Feedbacks \ {NoneStr} :
          (diffs[d].status = EVALUATOR_APPROVED /\ review_diff(d, a, f))
          => /\ a => diffs'[d].status = HUMAN_APPROVED
             /\ ~a => /\ diffs'[d].status = HUMAN_REJECTED
                      /\ diffs'[d].human_feedback = f
             /\ \A e \in DOMAIN diffs : e # d => diffs'[e] = diffs[e]]_vars

\* C8 amended: review on an evaluator_approved Diff sets human_approved
\* when approved (human_feedback untouched), and human_rejected when not,
\* storing the supplied feedback if it is a non-empty text and 'No feedback
\* provided' if it is empty or absent; no other Diff changes.
C8_ReviewSetsStatus ==
    [][\A d \in DOMAIN diffs, a \in BOOLEAN, f \in Feedbacks :
          (diffs[d].status = EVALUATOR_APPROVED /\ review_diff(d, a, f))
          => /\ a => /\ diffs'[d].status = HUMAN_APPROVED
                     /\ diffs'[d].human_feedback = diffs[d].human_feedback
             /\ ~a => /\ diffs'[d].status = HUMAN_REJECTED
                      /\ diffs'[d].human_feedback =
                            IF f \in {NoneStr, ""} THEN NoFeedbackProvided
                            ELSE f
             /\ Len(diffs') = Len(diffs)
             /\ \A e \in DOMAIN diffs : e # d => diffs'[e] = diffs[e]]_vars

\* C8 happened: one Diff was rejected through review without a feedback
\* text, and another one was approved
C8_Witness ==
    /\ last = Response(200, "")
    /\ \E d \in DOMAIN diffs :
          /\ diffs[d].status = HUMAN_REJECTED
          /\ diffs[d].human_feedback = NoFeedbackProvided
    /\ \E d \in DOMAIN diffs :
          /\ diffs[d].status = HUMAN_APPROVED
          /\ diffs[d].human_feedback = NoneStr

\* C9: a rejection through review starts a new orchestrator run that
\* carries the feedback, and leaves the Diff human_rejected.
C9_RejectionStartsRun ==
    [][\A d \in DOMAIN diffs, f \in Feedbacks :
          (diffs[d].status = EVALUATOR_APPROVED /\ review_diff(d, FALSE, f))
          => /\ diffs'[d].status = HUMAN_REJECTED
             /\ Len(runs') = Len(runs) + 1
             /\ runs'[Len(runs')].feedback = diffs'[d].human_feedback]_vars

\* the fields of a Diff that are fixed when it is created
Fixed(diff) ==
    <<diff.session_id, diff.project_id, diff.base_commit, diff.target_branch,
      diff.diff_content, diff.vibecoder_prompt, diff.evaluator_reasoning,
      diff.commit_message>>

\* C10: no step of review or commit changes a Diff's base_commit,
\* diff_content, session and project ids, evaluator_reasoning or
\* commit_message, also when the commit is given its own message.
C10_FixedFields ==
    [][\A d \in DOMAIN diffs : Fixed(diffs'[d]) = Fixed(diffs[d])]_vars

\* C10 happened: a Diff was committed under the message of the request and
\* still has the message of the evaluator
C10_Witness ==
    \E d \in DOMAIN diffs :
        /\ diffs[d].status = COMMITTED
        /\ diffs[d].committed_sha # NoneSha
        /\ repo.commits[diffs[d].committed_sha].message = CustomMessage
        /\ diffs[d].commit_message # CustomMessage

\* the generator of the call proposed a patch in every one of its
\* invocations, and validate_patch finds none of these patches valid
AlwaysInvalid(run) ==
    /\ run.generator_calls # <<>>
    /\ \A i \in DOMAIN run.generator_calls :
          /\ run.generator_calls[i].proposed # {}
          /\ \A p \in run.generator_calls[i].proposed :
                ~validate_patch(run.args.current_code, p).valid

\* C11: a call of vibecode() whose generator proposes an invalid patch on
\* every attempt has invoked the generator exactly 3 times when it ends,
\* and it ends in the exhausted outcome.
C11_InvalidPatchesExhaust ==
    (vrun.pc \in Ended /\ AlwaysInvalid(vrun))
    => /\ Len(vrun.generator_calls) = MaxIterations
       /\ vrun.pc = "exhausted"

\* C12: a call that reaches the iteration bound without approval returns an
\* explicit error: no diff id, nothing in content (the field of a text
\* answer), and an error.
C12_ExhaustedIsError ==
    vrun.pc = "exhausted"
    => /\ vrun.result.diff_id = NoneStr
       /\ vrun.result.content = <<>>
       /\ vrun.result.error # <<>>

\* C13: whatever the generator and the evaluator of the agents'
\* orchestrator do (text, invalid patch, rejected patch, approved patch),
\* a call invokes the generator at least once and at most 3 times, and,
\* its streams being finite, it ends: approved, with a text answer or
\* exhausted.
C13_BoundedAndEnds ==
    /\ [](vrun.impl = "agents"
          => /\ Len(vrun.generator_calls) \in 1..MaxIterations
             /\ vrun.pc \in {"stream", "approved", "text", "exhausted"})
    /\ ((vrun.impl = "agents" /\ vrun.pc = "stream")
         ~> (vrun.pc \in {"approved", "text", "exhausted"}))

\* C13 happened: a call ended approved in its third invocation of the
\* generator, after an invalid patch and a rejected one
C13_Witness ==
    /\ vrun.impl = "agents"
    /\ vrun.pc = "approved"
    /\ Len(vrun.generator_calls) = MaxIterations
    /\ \E i \in 1..2 :
          /\ PatchBreakSyntax \in vrun.generator_calls[i].proposed
          /\ PatchAddComment \in vrun.generator_calls[3 - i].proposed

C15_ApprovalStoresDiff ==
    vrun.pc = "approved"
    => /\ Len(diffs) = 1
       /\ diffs[1].status = EVALUATOR_APPROVED
       /\ diffs[1].base_commit = get_head_commit(repo)
       /\ vrun.result.diff_id \notin {NoneStr, GeneratedDiffId}

\* C16: the evaluator is only run for a patch that the generator proposed
\* in the same iteration and that validate_patch found valid: never for a
\* patch that did not apply or whose result fails the syntax check.
C16_EvaluatorSeesValidPatches ==
    \A c \in vrun.evaluator_calls :
        LET validation == validate_patch(vrun.args.current_code, c.patch)
        IN  /\ ~validation.raised
            /\ validation.valid
            /\ c.iteration + 1 \in DOMAIN vrun.generator_calls
            /\ c.patch \in vrun.generator_calls[c.iteration + 1].proposed

\* C16 happened: the evaluator was run in a call in which a patch that
\* does not apply and a patch with a syntax error were proposed too
C16_Witness ==
    /\ vrun.evaluator_calls # {}
    /\ \E i, j \in DOMAIN vrun.generator_calls :
          /\ PatchBreakSyntax \in vrun.generator_calls[i].proposed
          /\ PatchRemoveThree \in vrun.generator_calls[j].proposed

\* C17: the feedback the generator gets after a rejection by the evaluator
\* differs from every feedback it gets after a failed validation, whatever
\* the reasoning and the error are.
C17_FeedbackTellsStage ==
    (/\ vrun.evaluation.kind = "evaluation"
     /\ ~vrun.evaluation.approved
     /\ vrun.evaluation.stage = "evaluator")
    => \A p \in ProposedPatches :
          LET tool == submit_patch(vrun.current_code, p, NoEvaluation)
          IN  tool.output.stage = "validator"
              => RejectionPrompt(vrun.evaluation.reasoning)
                 # RejectionPrompt(tool.output.reasoning)

\* C18: every invocation of the generator in a call is given the prompt
\* and the current_code the call was made with.
C18_OriginalPromptEveryIteration ==
    \A i \in DOMAIN vrun.generator_calls :
        /\ vrun.generator_calls[i].prompt = vrun.args.prompt
        /\ vrun.generator_calls[i].current_code = vrun.args.current_code

\* the messages of the events of one invocation of the generator, in the
\* order of their arrival
MessagesOf(run, iteration) ==
    SelectSeq(run.collected_messages, LAMBDA m : m.iteration = iteration)

\* C19: the events of one invocation of the generator that are not raw
\* response events are numbered 1, 2, ..., N in the order of their
\* arrival, without duplicate or gap; raw response events take no number.
C19_SequenceContiguous ==
    /\ \A it \in 0..(MaxIterations - 1) :
          \A k \in DOMAIN MessagesOf(vrun, it) :
             MessagesOf(vrun, it)[k].stream_sequence = k
    /\ vrun.pc = "stream"
       => Len(MessagesOf(vrun, vrun.iteration)) = vrun.sequence_counter

\* C19 happened: an invocation gave two numbered events, and a later one a
\* raw event and a numbered one
C19_Witness ==
    /\ vrun.pc = "stream"
    /\ vrun.events = 2
    /\ vrun.sequence_counter = 1
    /\ \E it \in 0..(MaxIterations - 1) :
          it < vrun.iteration /\ Len(MessagesOf(vrun, it)) = 2

\* C20: every event of a session that was given a message has its own row
\* in conversation_messages.
C20_EveryEventStored ==
    \A k \in DOMAIN vrun.collected_messages :
        vrun.collected_messages[k] \in messages

\* C21: when a message is written whose id is already that of a stored
\* row, by the endpoint (with a message_id) or by the save of the agents,
\* and with whatever content, the table stays as it was: one row of that
\* id, holding what was written first.  The second write raises nothing:
\* the endpoint goes on to call vibecode().
C21_SecondWriteIsNoOp ==
    [][/\ \A i \in ClientIds, p \in Prompts :
             ((\E m \in messages : m.id = i) /\ send_message(i, p))
             => /\ messages' = messages
                /\ vrun'.pc = "services"
                /\ vrun'.prompt = p
       /\ \A d \in MessageData :
             ((\E m \in messages : m.id = d.id)
              /\ save_conversation_message(d))
             => messages' = messages
       /\ \A m, n \in messages' : m.id = n.id => m = n]_vars

\* C21 happened: two requests with the same message_id were served, the
\* second with another prompt, and the one row of the user holds the first
C21_Witness ==
    /\ loop.served = 2
    /\ vrun.args.prompt = OtherPrompt
    /\ \E m \in messages :
          /\ m.id \in ClientIds
          /\ m.content = UserPrompt
          /\ {n \in messages : n.role = "user"} = {m}
    /\ \A m \in messages : m.role # "assistant"

\* the places in the log of the event loop where op was awaited for the
\* message (iteration, sequence)
Places(op, iteration, sequence) ==
    {i \in 1..Len(loop.effects) :
        loop.effects[i] = Effect(op, iteration, sequence)}

\* C22: for every message the emission to the transport is issued before
\* the write to the database is awaited: in the order of the awaits of
\* the event loop no save of a message precedes its emission.
C22_EmitBeforeSave ==
    \A j \in 1..Len(loop.effects) :
       loop.effects[j].op = "save"
       => \E i \in Places("emit", loop.effects[j].iteration,
                          loop.effects[j].sequence) : i < j

\* the emissions that returned, in the order in which they were issued
Emissions(effects) == SelectSeq(effects, LAMBDA e : e.op = "emit")

Saves(effects) == SelectSeq(effects, LAMBDA e : e.op = "save")

\* the message of a was emitted before that of b in a run: its iteration
\* is lower, or in the same iteration its sequence number is
EmittedBefore(a, b) ==
    \/ a.iteration < b.iteration
    \/ a.iteration = b.iteration /\ a.sequence < b.sequence

\* C24: within one run the messages are written to the database in the
\* order in which they were emitted, by increasing iteration and then
\* increasing sequence number, also where the write is a task that is
\* created and not awaited: of two writes the earlier one is that of the
\* message emitted earlier.
C24_StoredInEmissionOrder ==
    \A i, j \in 1..Len(Saves(loop.effects)) :
       i < j => EmittedBefore(Saves(loop.effects)[i],
                              Saves(loop.effects)[j])

\* C24 happened: the services' orchestrator emitted the responses of three
\* iterations while the tasks of their writes were waiting, and the three
\* writes were made afterwards
C24_Witness ==
    /\ vrun.impl = "services"
    /\ Len(loop.effects) = 6
    /\ loop.effects[3].op = "emit"
    /\ loop.effects[4].op = "save"
    /\ loop.tasks = <<>>
    /\ Cardinality(messages) = 3

\* C25: an emission that raises does not abort the run.  The step in
\* which it raises leaves the run where the same step with an emission
\* that returns leaves it, with the same rows written and the same writes
\* queued, so that the run ends as the run without failures ends.
C25_EmitFailureNeverAborts ==
    [][/\ (Streaming(vrun) /\ stream_item(FALSE))
          => /\ vrun' = Processed(vrun, NoEvaluation)
             /\ messages' =
                   Saved(messages, Message(vrun, vrun.sequence_counter + 1))
       /\ \A r \in ServiceResponses :
             (vrun.pc = "services" /\ services_iteration(r, FALSE))
             => /\ vrun' = ServicesStep(vrun, r, TRUE)
                /\ loop'.tasks =
                      StreamAgentResponse(loop, r, vrun.iteration,
                                          vrun.session_id,
                                          TRUE).tasks]_vars

C27_IterationCountIsOwn ==
    \A s \in Sessions :
       loop.calls[s].pc = "stream"
       => service.last_iteration_count = loop.calls[s].iteration + 1

FailedToApplyPrefix == "Failed to apply patch: "

\* C28: for every original and every patch that the diff engine cannot
\* apply, validate_patch returns a validation that is not valid, with an
\* error that starts with 'Failed to apply patch: ' and without patched
\* code; it does not raise.
C28_UnappliableIsAVerdict ==
    (/\ engine.fn = "validate_patch"
     /\ apply_patch(engine.original, engine.patch) = NoneText)
    => /\ ~engine.validation.raised
       /\ ~engine.validation.valid
       /\ engine.validation.patched_code = NoneText
       /\ engine.validation.error # <<>>
       /\ engine.validation.error[1] = FailedToApplyPrefix

\* C29: for every original and every patch whose hunks are valid against
\* it, apply_patch returns what the pass from left to right returns, in
\* which every added line comes out at its place among the context lines
\* of its hunk: the text that apply_simple_patch returns.
C29_ApplyIsTheLeftToRightPass ==
    (/\ engine.fn = "apply_patch"
     /\ valid_patch(engine.original, engine.patch))
    => engine.modified = apply_simple_patch(engine.original, engine.patch)

\* C30: for an original O and a text P made from it, applying to O the
\* diff that create_unified_diff(O, P) returns gives P, with or without
\* a newline at its end as P has it.
C30_RoundTrip ==
    engine.fn = "create_unified_diff" => engine.modified = engine.new_content

\* the patch has a line that starts with '@@' and is no hunk header, a
\* hunk whose header counts other lines than its body has, or a line in
\* the body of a hunk that starts with none of ' ', '-' and '+'
Malformed(patch) ==
    LET lines == Strip(patch)
        hunks == parse_hunks(lines)
        Declared(h) ==
            CHOOSE l \in {lines[i] : i \in 1..Len(lines)} :
               /\ l.k = "@@"
               /\ l.old_start = h.old_start
               /\ l.new_start = h.new_start
    IN  \/ \E i \in 1..Len(lines) : lines[i].k = "@@bad"
        \/ \E j \in 1..Len(hunks) :
              \/ Declared(hunks[j]).old_count
                    # Len(OldLines(hunks[j].hunk_lines))
              \/ Declared(hunks[j]).new_count
                    # Len(NewLines(hunks[j].hunk_lines))
              \/ \E i \in 1..Len(hunks[j].hunk_lines) :
                    hunks[j].hunk_lines[i].k \notin {" ", "-", "+"}

\* C31: apply_patch returns no patched text for a patch with a hunk
\* header that cannot be parsed, with a hunk whose counts disagree with
\* its body, or with a line in the body of a hunk that starts with none
\* of ' ', '-' and '+'.
C31_MalformedPatchFails ==
    (engine.fn = "apply_patch" /\ Malformed(engine.patch))
    => engine.modified = NoneText

\* C32: apply_patch returns no patched text for a patch with a hunk whose
\* old_start is greater than the number of lines of the original.
C32_StartBeyondEndFails ==
    (/\ engine.fn = "apply_patch"
     /\ \E j \in 1..Len(parse_hunks(Strip(engine.patch))) :
           parse_hunks(Strip(engine.patch))[j].old_start
              > Len(engine.original))
    => engine.modified = NoneText

\* no line of the patch starts with '@@'
ZeroHunks(patch) == \A i \in 1..Len(patch) : ~StartsWithAt(patch[i])

\* C33: apply_patch with a patch without hunks returns the original as
\* it is, with the newline at its end if it has one and without if not.
C33_ZeroHunksReturnsOriginal ==
    (engine.fn = "apply_patch" /\ ZeroHunks(engine.patch))
    => engine.modified = engine.original

\* C33 happened: a patch of two header lines was applied to a text that
\* ends with a newline
C33_Witness ==
    /\ engine.fn = "apply_patch"
    /\ ZeroHunks(engine.patch)
    /\ Len(engine.patch) = 2
    /\ Len(engine.original) = 2
    /\ engine.original[2] = ""
    /\ engine.modified = engine.original


\* ------------------------------------------------ endpoints of sessions
\* get_valid_session: db.query(VibecodeSession).filter(VibecodeSession.id
\* == session_id), the rows .first() chooses from; none is a 404
get_valid_session(table, session_id) == {r \in table : r.id = session_id}

\* the ids of the sessions that were created, deleted or not
CreatedIds == {SessionUuid(n) : n \in 1..sessions.drawn}

\* POST /projects/{project_id}/sessions: the session of the project is
\* returned if there is one (openai_session_key is f"project_{slug}"),
\* and a new session is stored otherwise
create_session(project_id) ==
    LET existing_session ==
            {r \in sessions.rows : r.project_id = project_id}
        id == SessionUuid(sessions.drawn + 1)
    IN  /\ existing_session = {} => sessions.drawn < MaxCreated
        /\ sessions' =
               IF existing_session # {} THEN sessions
               ELSE [rows |-> sessions.rows
                                  \cup {[id |-> id,
                                         project_id |-> project_id]},
                     drawn |-> sessions.drawn + 1,
                     deleted |-> sessions.deleted,
                     writers |-> sessions.writers]
        /\ UNCHANGED <<review, orch, sio>>

\* the rows of the sessions other than session_id
Others_All(table, session_id) == {}

\* db.query(ConversationMessage).filter(ConversationMessage.session_id ==
\* session.id).delete(): the rows that stay
Others(table, session_id) == {m \in table : m.session_id # session_id}

\* DELETE /sessions/{session_id}: the messages of the session are deleted,
\* then the session.  db.delete(session) sets Diff.session_id of the Diffs
\* of the session to NULL (the backref diffs has no delete cascade), which
\* the column, nullable=False, refuses: the commit raises and nothing is
\* deleted
delete_session(session_id) ==
    LET session == get_valid_session(sessions.rows, session_id)
        has_diffs == \E i \in 1..Len(diffs) : diffs[i].session_id = session_id
        status == IF session = {} THEN 404
                  ELSE IF has_diffs THEN 500 ELSE 204
    IN  /\ session_id \in CreatedIds
        /\ messages' = IF status = 204 THEN Others(messages, session_id)
                       ELSE messages
        /\ sessions' = [sessions EXCEPT
                            !.rows = IF status = 204 THEN @ \ session ELSE @,
                            !.deleted = IF status = 204
                                        THEN @ \cup {session_id} ELSE @]
        /\ UNCHANGED <<review, vrun, loop, service, engine, sio>>

\* POST /sessions/{session_id}/messages for any session: 404 when the
\* session is not found; otherwise the message of the user is stored for
\* the session unless its message_id was given and is known, and
\* vibecode() of the services is called for the session with the code of
\* its project
session_send_message(session_id, message_id, prompt) ==
    LET session == get_valid_session(sessions.rows, session_id)
        found == session # {}
        existing_message ==
            message_id # NoMessageId /\ Existing(messages, message_id)
        called == found /\ CallsVibecode(existing_message)
        current_code ==
            IF \E r \in session : r.project_id = "p1"
            THEN project.current_code ELSE InitialCode
    IN  /\ ~Running(vrun)
        /\ loop.served < MaxRequests
        /\ session_id \in CreatedIds
        /\ messages' =
               IF ~found \/ existing_message THEN messages
               ELSE messages
                    \cup {[UserMessage(messages, message_id, prompt)
                              EXCEPT !.session_id = session_id]}
        /\ vrun' =
               IF ~called THEN vrun
               ELSE [IdleRun EXCEPT !.pc = "services", !.impl = "services",
                         !.session_id = session_id,
                         !.prompt = prompt, !.current_code = current_code,
                         !.args = [prompt |-> prompt,
                                   current_code |-> current_code]]
        /\ loop' = [loop EXCEPT
                        !.served = @ + 1,
                        !.posts = IF found
                                  THEN Append(@, [message_id |-> message_id,
                                                  prompt |-> prompt])
                                  ELSE @,
                        !.started = IF called THEN Append(@, prompt) ELSE @]
        /\ UNCHANGED <<review, service, engine, edge>>

\* the endpoints of the sessions, the generator answering a text, and the
\* saves of the background; no Diff is stored
NextDelete ==
    \/ \E p \in ProjectIds : create_session(p)
    \/ \E s \in SessionIds : delete_session(s)
    \/ \E s \in SessionIds : session_send_message(s, NoMessageId, UserPrompt)
    \/ \E r \in {x \in ServiceResponses : x.type = "text"} :
          services_iteration(r, TRUE)
    \/ background_save

SpecDelete == Init /\ [][NextDelete]_vars

\* C34: when delete_session(s) completes, no message of the session s is
\* stored, the session s is not found any more, and the messages of the
\* other sessions are the ones that were stored before
C34_DeleteRemovesSessionAndItsMessages ==
    [][\A s \in sessions'.deleted \ sessions.deleted :
          /\ \A m \in messages' : m.session_id # s
          /\ get_valid_session(sessions'.rows, s) = {}
          /\ {m \in messages' : m.session_id # s}
                 = {m \in messages : m.session_id # s}]_vars

\* a session whose messages held the first uuid was deleted while another
\* session holds messages
C34_Witness ==
    /\ \E s \in sessions.deleted : \A m \in messages : m.session_id # s
    /\ \E m \in messages : m.role = "vibecoder"
    /\ \A m \in messages : m.id # Uuid(1)

\* ------------------------------------- submissions of several processes
\* the message ids of the submissions: ids a client supplies, one of them
\* being the id of the first event of the session
SubmittedIds == {<<"client", 1>>, MessageId(SessionId, 1)}

\* send_message of the process w up to the lookup: the project is found,
\* message_id is request.message_id, and existing_message is looked up
send_message_check(w, message_id, prompt) ==
    /\ sessions.writers[w].pc = "idle"
    /\ sessions' = [sessions EXCEPT !.writers[w] =
           [pc |-> "checked",
            message |-> UserMessage(messages, message_id, prompt),
            existing |-> Existing(messages, message_id)]]
    /\ UNCHANGED <<review, orch, sio>>

\* send_message of the process w from the lookup to the call of
\* vibecode(): unless existing_message was found, db.add(user_message) and
\* db.commit(), which raises IntegrityError when a row with the primary
\* key was committed since the lookup; nothing catches it.  The run of
\* vibecode() that follows is the one services_vibecode starts
send_message_insert(w) ==
    LET writer == sessions.writers[w]
        raises == ~writer.existing /\ Existing(messages, writer.message.id)
    IN  /\ writer.pc = "checked"
        /\ messages' = IF writer.existing \/ raises THEN messages
                       ELSE messages \cup {writer.message}
        /\ sessions' = [sessions EXCEPT !.writers[w].pc =
                            IF raises THEN "failed" ELSE "vibecode"]
        /\ UNCHANGED <<review, vrun, loop, service, engine, sio>>

\* _save_conversation_message_async of the agents in the process w, up to
\* the lookup of existing
save_check(w, message_data) ==
    /\ sessions.writers[w].pc = "idle"
    /\ sessions' = [sessions EXCEPT !.writers[w] =
           [pc |-> "saving", message |-> message_data,
            existing |-> Existing(messages, message_data.id)]]
    /\ UNCHANGED <<review, orch, sio>>

\* _save_conversation_message_async from the lookup on: the insert and
\* the commit unless existing; the IntegrityError of a row committed since
\* the lookup is caught by except Exception and logged as an error
save_insert(w) ==
    LET writer == sessions.writers[w]
        raises == ~writer.existing /\ Existing(messages, writer.message.id)
    IN  /\ writer.pc = "saving"
        /\ messages' = IF writer.existing \/ raises THEN messages
                       ELSE messages \cup {writer.message}
        /\ sessions' = [sessions EXCEPT !.writers[w].pc =
                            IF raises THEN "logged"
                            ELSE IF writer.existing THEN "skipped"
                            ELSE "saved"]
        /\ UNCHANGED <<review, vrun, loop, service, engine, sio>>

\* the process w is done with its submission and serves the next one
writer_done(w) ==
    /\ sessions.writers[w].pc \in
           {"vibecode", "failed", "logged", "skipped", "saved"}
    /\ sessions' = [sessions EXCEPT !.writers[w] = IdleWriter]
    /\ UNCHANGED <<review, orch, sio>>

\* the submissions of messages served by several processes that share the
\* database: their lookups and inserts overlap
NextWriters ==
    \/ \E w \in Writers, i \in SubmittedIds, p \in Prompts :
          send_message_check(w, i, p)
    \/ \E w \in Writers : send_message_insert(w)
    \/ \E w \in Writers, d \in MessageData : save_check(w, d)
    \/ \E w \in Writers : save_insert(w)
    \/ \E w \in Writers : writer_done(w)

SpecWriters == Init /\ [][NextWriters]_vars

\* C36: when two submissions of one message id are served at the same
\* time, each a lookup followed by an insert, one row with the id is
\* stored and neither submission ends with an error
C36_ConcurrentSubmissionsStoreOnce ==
    \A v, w \in Writers :
        (/\ v # w
         /\ sessions.writers[v].message.id = sessions.writers[w].message.id
         /\ sessions.writers[v].pc \notin {"idle", "checked", "saving"}
         /\ sessions.writers[w].pc \notin {"idle", "checked", "saving"})
        => /\ Cardinality({m \in messages :
                              m.id = sessions.writers[w].message.id}) = 1
           /\ sessions.writers[v].pc \notin {"failed", "logged"}
           /\ sessions.writers[w].pc \notin {"failed", "logged"}

\* ------------------------------------------------------- get_project
\* the files of the working tree of the repository: the files its commits
\* wrote, each holding what the last commit of it wrote
TreeFiles(r) ==
    {[filename |-> r.commits[i].filename, content |-> r.commits[i].content] :
        i \in {k \in 1..Len(r.commits) :
                  \A j \in (k + 1)..Len(r.commits) :
                      r.commits[j].filename # r.commits[k].filename}}

\* GitService.get_current_code, the texts it can return: agents.py if the
\* tree holds it, otherwise the file repo_path.glob("*.py") lists first,
\* which the order of the directory decides, and None without a file
get_current_code(r) ==
    LET files == TreeFiles(r)
        agents == {f \in files : f.filename = "agents.py"}
    IN  IF agents # {} THEN {f.content : f \in agents}
        ELSE IF files # {} THEN {f.content : f \in files}
        ELSE {NoneText}

\* GET /projects/{project_id}: current_code and current_commit of the
\* project row are read from the repository and stored
get_project ==
    /\ \E code \in get_current_code(repo) :
          project' = [current_code |-> code,
                      current_commit |-> get_head_commit(repo)]
    /\ UNCHANGED <<diffs, repo, creq, last, runs, orch, edge>>

\* the endpoints of api/diffs.py and get_project, served by one process
NextProject ==
    \/ \E p \in Patches : create_diff(p)
    \/ \E d \in DiffIds, a \in BOOLEAN, f \in Feedbacks : review_diff(d, a, f)
    \/ \E r \in Reqs, d \in DiffIds, m \in CommitMessages :
          commit_diff_enter(r, d, m)
    \/ \E r \in Reqs : commit_diff_write(r)
    \/ \E r \in Reqs : commit_diff_update(r)
    \/ get_project

SpecProject == Init /\ [][NextProject]_vars

\* C37: a get_project that follows the commit of a Diff, the head being
\* the version that commit stored, reads the text of that commit as
\* current_code and its id as current_commit
C37_GetProjectReadsTheCommit ==
    [][(/\ project' # project
        /\ repo' = repo
        /\ diffs' = diffs
        /\ repo.head # NoneSha
        /\ \E i \in 1..Len(diffs) : /\ diffs[i].status = COMMITTED
                                    /\ diffs[i].committed_sha = repo.head)
       => /\ project'.current_code = repo.commits[repo.head].content
          /\ project'.current_commit = repo.head]_vars

\* C38: a send_message whose client-supplied message_id is known stores no
\* second user message, and every send_message request calls vibecode()
\* once for its prompt, so k requests with one message id start k runs
C38_ResubmissionRunsAgain ==
    /\ \A i \in ClientIds : Cardinality({m \in messages : m.id = i}) <= 1
    /\ \A i \in 1..Len(loop.posts) :
          loop.posts[i].message_id \in ClientIds
          => \E m \in messages : /\ m.id = loop.posts[i].message_id
                                 /\ m.role = "user"
    /\ Len(loop.started) = Len(loop.posts)
    /\ \A i \in 1..Len(loop.posts) : loop.started[i] = loop.posts[i].prompt

\* one message id was submitted twice, with two prompts, and two runs were
\* started, the second for the second prompt
C38_Witness ==
    /\ Len(loop.posts) = 2
    /\ loop.posts[1].message_id \in ClientIds
    /\ loop.posts[2].message_id = loop.posts[1].message_id
    /\ loop.posts[2].prompt # loop.posts[1].prompt
    /\ loop.started = <<loop.posts[1].prompt, loop.posts[2].prompt>>
    /\ vrun.args.prompt = loop.posts[2].prompt
    /\ Cardinality({m \in messages : m.role = "user"}) = 1

\* C39: when the stream of an iteration that held evaluations ends, the
\* call returns approved exactly if the last of them approved; otherwise
\* the prompt becomes the rejection prompt of the reasoning of the last
\* one, with which the next iteration starts while iterations remain
C39_LastVerdictDecides ==
    [][(/\ Streaming(vrun)
        /\ vrun.verdicts # <<>>
        /\ \/ vrun'.pc \in {"approved", "text", "exhausted"}
           \/ Streaming(vrun') /\ vrun'.iteration # vrun.iteration)
       => LET final == vrun.verdicts[Len(vrun.verdicts)]
          IN  /\ vrun'.pc = "approved" <=> final.approved
              /\ ~final.approved
                 => /\ vrun'.prompt = RejectionPrompt(final.reasoning)
                    /\ MoreIterations(vrun.iteration)
                       => /\ Streaming(vrun')
                          /\ vrun'.iteration = vrun.iteration + 1
                          /\ vrun'.generator_calls[
                                 Len(vrun'.generator_calls)].prompt
                                 = RejectionPrompt(final.reasoning)]_vars

\* the last stream held an approval followed by a rejection, and the call
\* ended without a Diff, its prompt built from the reasoning of the
\* rejection
C39_Witness ==
    /\ vrun.pc = "exhausted"
    /\ Len(vrun.verdicts) = 2
    /\ vrun.verdicts[1].approved
    /\ ~vrun.verdicts[2].approved
    /\ vrun.prompt = RejectionPrompt(vrun.verdicts[2].reasoning)

\* C40: at the gap check the number assigned to an event is the one after
\* the number of the event before, so no sequence gap is ever logged
C40_NoSequenceGap ==
    /\ vrun.gaps = 0
    /\ vrun.last_sequence >= 0 => vrun.sequence_counter = vrun.last_sequence
    /\ vrun.last_sequence < 0 => vrun.sequence_counter = 0

\* two numbered events of a stream after the first one passed the check,
\* the second with a number before it
C40_Witness ==
    /\ vrun.iteration >= 1
    /\ vrun.last_sequence = 2
    /\ vrun.sequence_counter = 2
    /\ vrun.gaps = 0

\* -------------------------------------------- handlers of the socket
\* sids.discard(sid) that leaves the set as it was
Discarded_Kept(sids, sid) == sids

\* sids.discard(sid)
Discarded(sids, sid) == sids \ {sid}

\* the event connect of a client the server did not hold
connect(sid) ==
    /\ sid \notin sio.clients
    /\ sio' = [sio EXCEPT !.clients = @ \cup {sid},
                   !.connections = @ + 1,
                   !.emitted = [event |-> "connected", room |-> sid]]
    /\ UNCHANGED <<review, orch, sessions>>

\* the event disconnect of a client: the counter is decremented and the
\* sid is removed from every project room; the server drops the client
\* and its rooms
disconnect(sid) ==
    /\ sid \in sio.clients
    /\ sio' = [sio EXCEPT
                   !.clients = @ \ {sid},
                   !.connections = @ - 1,
                   !.project_rooms =
                       [p \in DOMAIN @ |-> Discarded(@[p], sid)],
                   !.rooms = {r \in @ : r[1] # sid}]
    /\ UNCHANGED <<review, orch, sessions>>

\* the event subscribe of a connected client, project_id being
\* data.get("project_id"): without one an error is emitted; otherwise the
\* client enters the room of the project and is tracked in project_rooms
subscribe(sid, project_id) ==
    /\ sid \in sio.clients
    /\ sio' =
           IF project_id \in {NoneStr, ""}
           THEN [sio EXCEPT !.emitted = [event |-> "error", room |-> sid]]
           ELSE [sio EXCEPT
                     !.rooms = @ \cup {<<sid, <<"project_", project_id>>>>},
                     !.project_rooms =
                         IF project_id \in DOMAIN @
                         THEN [@ EXCEPT ![project_id] = @ \cup {sid}]
                         ELSE @ @@ (project_id :> {sid}),
                     !.emitted = [event |-> "subscribed", room |-> sid]]
    /\ UNCHANGED <<review, orch, sessions>>

\* the events of the clients, each client connecting before its other
\* events and disconnecting once
NextSocket ==
    \/ \E sid \in Sids : connect(sid)
    \/ \E sid \in Sids : disconnect(sid)
    \/ \E sid \in Sids, p \in ProjectIds \cup {NoneStr, ""} :
          subscribe(sid, p)

SpecSocket == Init /\ [][NextSocket]_vars

====
